---- MODULE Spec2Model ----
(***************************************************************************)
(* Acquisition and reduction engine of asdetector (MACIE / ACADIA readout).*)
(*                                                                         *)
(* Times are integers counted in ticks; every FRAMETIMESEC used here is an *)
(* even number of ticks, so the halving of mean_calc_exposure is exact and *)
(* exposure_time / FRAMETIMESEC hits the exact halves that Python's        *)
(* round() sends to the even neighbour.                                    *)
(*                                                                         *)
(* The module holds several specifications over one set of variables:      *)
(*   SpecFrames  exposure time <-> frame count (utils/image.py)            *)
(*   SpecReduce  ramp reduction of one pixel   (utils/image.py)            *)
(*   SpecDeint   deinterleaving partition      (macie/io.py, image.py)     *)
(*   SpecSkips   the skip schedule loop of BaseMACIE.start                 *)
(*   Spec        one START or INIT command: capture loop, post-processing  *)
(*   SpecExposures  a START command of several exposures, one camera       *)
(*   SpecSession the saved session across OPEN, INIT and START commands    *)
(*   SpecFair    one short command with the handle_frame threads scheduled *)
(*   SpecServers commands of the two servers side by side                  *)
(*   SpecSave    header and save lock of the frames of one exposure        *)
(*   SpecFiling  one short command with telemetry and the raw-buffer dump  *)
(*   SpecKeys    status keys of the cameras of an enumerated ASIC bitmask  *)
(***************************************************************************)
EXTENDS Integers, Sequences, FiniteSets, TLC

VARIABLES
    settings,   \* load_settings(): the keys the engine reads
    calc,       \* SpecFrames: arguments and results of the frame calculators
    red,        \* SpecReduce: one pixel of a ramp and its reduction
    geom,       \* SpecDeint: geometry of the session and of deinterlace()
    deint,      \* SpecDeint: partition, raw buffer and per-camera frames
    sk,         \* SpecSkips: the locals of the skip-schedule loop
    chip,       \* Spec: chip id word the telemetry of each camera carries
    cmd,        \* Spec: the command thread, Start.execute_command down to start()
    status,     \* Spec: the Status dictionary shared by all threads
    status_file, \* Spec: the status document on disk, as last written
    session,    \* Spec: ramps and resync flag of the interface of each exposure
    files,      \* Spec: names of the files saved so far
    hf,         \* Spec: the handle_frames thread of each captured frame
    ht,         \* Spec: the handle_frame thread of each camera of a frame
    rf,         \* Spec: the reduce_frames and reduce_frame threads
    store,      \* SpecSession: interface objects in memory and their files on disk
    srv,        \* SpecServers: the handler threads of the two servers and the
                \* handle_frames threads their commands have started
    sv,         \* SpecSave: the shared header, the save lock and the threads
                \* that format and save the frames of one exposure
    ck          \* SpecKeys: the cameras of an enumerated bitmask and the status
                \* entries recorded for them

acqvars == <<chip, cmd, status, status_file, session, files, hf, ht, rf, store, srv, sv, ck>>

vars == <<settings, calc, red, geom, deint, sk, chip, cmd, status, status_file, session, files,
          hf, ht, rf, store, srv, sv, ck>>

----------------------------------------------------------------------------
(* Bounds of the model *)

MaxFrameTimeHalf == 2
MaxExposureTicks == 40
MaxRampLen == 5
MaxFrameX == 4
MaxFrameY == 2
MaxAsics == 3
MaxChannels == 3
MaxHeaders == 1
MaxPattern == 1
MaxSkipTicks == 6
MaxCameras == 2
MaxExposureFrameTimes == 1
MaxSkipFrameTimes == 1
MaxExposures == 2
MaxUnits == 2
MaxAsicBits == 2
MaxCommands == 3
MaxTaskCameras == 2
MaxServerCommands == 2

FrameTimes == {2 * h : h \in 1..MaxFrameTimeHalf}

----------------------------------------------------------------------------
(* Generic helpers *)

Abs(x) == IF x < 0 THEN -x ELSE x

RECURSIVE Flatten(_)
\* the rows of a two-dimensional array one after the other (row-major order)
Flatten(rows) == IF rows = <<>> THEN <<>> ELSE Head(rows) \o Flatten(Tail(rows))

\* Python 3 round(a / b) for b > 0: nearest integer, exact halves to even.
Round(a, b) ==
    LET q == a \div b
        r == a % b
    IN  IF 2 * r < b THEN q
        ELSE IF 2 * r > b THEN q + 1
        ELSE IF q % 2 = 0 THEN q ELSE q + 1

----------------------------------------------------------------------------
(* utils/files.py: DEFAULT_SETTINGS, the keys read by the engine *)

Modes == {"CDS", "SSR", "MEAN", "MEDIAN", "MODE", "MIN", "MAX",
          "FOWLER2", "FOWLER4", "FOWLER8", "FOWLER16"}

DefaultSettings ==
    [MODE |-> "CDS", FRAMETIMESEC |-> 2,
     DEINTERLACE |-> TRUE,
     NUMBEROFREADOUTCHANNELS |-> 1,
     NUMBEROFSCIENCEHEADERSPERROW |-> 0,
     ASICRESETFRAMES |-> 1,
     SAVERESETFRAMES |-> FALSE,
     REDUCEINTERMEDIATEFRAMES |-> TRUE,
     REDUCEFINALFRAME |-> TRUE,
     SAVENUMPYARRAY |-> FALSE,
     AUTORESYNC |-> FALSE,
     FRAMEX |-> 2,
     FRAMEY |-> 1,
     CAMERANAMES |-> <<"C0", "C1", "C2", "C3">>]

----------------------------------------------------------------------------
(* utils/image.py: exposure time -> number of frames *)

ssr_calc_frames(exposure_time, time_per_frame) ==
    Round(exposure_time, time_per_frame)

cds_calc_frames(exposure_time, time_per_frame) ==
    ssr_calc_frames(exposure_time, time_per_frame) + 1

mean_calc_frames(exposure_time, time_per_frame) ==
    ssr_calc_frames(exposure_time, time_per_frame) * 2

\* variant: the request below the minimum ramp is not clamped
fowler_calc_frames_unclamped(exposure_time, time_per_frame, fowler_number) ==
    ssr_calc_frames(exposure_time - time_per_frame * fowler_number, time_per_frame)
        + fowler_number * 2

fowler_calc_frames(exposure_time, time_per_frame, fowler_number) ==
    LET fowler_time == time_per_frame * fowler_number
        exposure_time_remaining == exposure_time - fowler_time
    IN  IF exposure_time_remaining < 0
        THEN fowler_number * 2
        ELSE ssr_calc_frames(exposure_time_remaining, time_per_frame)
                + fowler_number * 2

fowler2_calc_frames(exposure_time, time_per_frame) ==
    fowler_calc_frames(exposure_time, time_per_frame, 2)

fowler4_calc_frames(exposure_time, time_per_frame) ==
    fowler_calc_frames(exposure_time, time_per_frame, 4)

fowler8_calc_frames(exposure_time, time_per_frame) ==
    fowler_calc_frames(exposure_time, time_per_frame, 8)

fowler16_calc_frames(exposure_time, time_per_frame) ==
    fowler_calc_frames(exposure_time, time_per_frame, 16)

FRAMES_PER_EXPOSURE_TIME(mode, exposure_time, time_per_frame) ==
    CASE mode = "CDS"      -> cds_calc_frames(exposure_time, time_per_frame)
      [] mode = "SSR"      -> ssr_calc_frames(exposure_time, time_per_frame)
      [] mode = "MEAN"     -> mean_calc_frames(exposure_time, time_per_frame)
      [] mode = "MEDIAN"   -> mean_calc_frames(exposure_time, time_per_frame)
      [] mode = "MODE"     -> mean_calc_frames(exposure_time, time_per_frame)
      [] mode = "MIN"      -> ssr_calc_frames(exposure_time, time_per_frame)
      [] mode = "MAX"      -> ssr_calc_frames(exposure_time, time_per_frame)
      [] mode = "FOWLER2"  -> fowler2_calc_frames(exposure_time, time_per_frame)
      [] mode = "FOWLER4"  -> fowler4_calc_frames(exposure_time, time_per_frame)
      [] mode = "FOWLER8"  -> fowler8_calc_frames(exposure_time, time_per_frame)
      [] mode = "FOWLER16" -> fowler16_calc_frames(exposure_time, time_per_frame)

calc_num_frames(_settings, exposure_time) ==
    FRAMES_PER_EXPOSURE_TIME(_settings.MODE, exposure_time, _settings.FRAMETIMESEC)

----------------------------------------------------------------------------
(* utils/image.py: number of frames -> effective exposure time *)

cds_calc_exposure(frames, time_per_frame) ==
    (frames - 1) * time_per_frame

ssr_calc_exposure(frames, time_per_frame) ==
    frames * time_per_frame

\* frames * time_per_frame is even for every FRAMETIMESEC of the model
mean_calc_exposure(frames, time_per_frame) ==
    ssr_calc_exposure(frames, time_per_frame) \div 2

fowler_calc_exposure(frames, time_per_frame, fowler_number) ==
    LET fowler_time == fowler_number * time_per_frame
        frame_time == (frames - 2 * fowler_number) * time_per_frame
    IN  fowler_time + frame_time

fowler2_calc_exposure(frames, time_per_frame) ==
    fowler_calc_exposure(frames, time_per_frame, 2)

fowler4_calc_exposure(frames, time_per_frame) ==
    fowler_calc_exposure(frames, time_per_frame, 4)

\* image.py:570 passes 4, not 8
fowler8_calc_exposure(frames, time_per_frame) ==
    fowler_calc_exposure(frames, time_per_frame, 4)

\* image.py:574 passes 4, not 16
fowler16_calc_exposure(frames, time_per_frame) ==
    fowler_calc_exposure(frames, time_per_frame, 4)

EXPOSURE_TIME_PER_FRAMES(mode, frames, time_per_frame) ==
    CASE mode = "CDS"      -> cds_calc_exposure(frames, time_per_frame)
      [] mode = "SSR"      -> ssr_calc_exposure(frames, time_per_frame)
      [] mode = "MEAN"     -> mean_calc_exposure(frames, time_per_frame)
      [] mode = "MEDIAN"   -> mean_calc_exposure(frames, time_per_frame)
      [] mode = "MODE"     -> mean_calc_exposure(frames, time_per_frame)
      [] mode = "MIN"      -> ssr_calc_exposure(frames, time_per_frame)
      [] mode = "MAX"      -> ssr_calc_exposure(frames, time_per_frame)
      [] mode = "FOWLER2"  -> fowler2_calc_exposure(frames, time_per_frame)
      [] mode = "FOWLER4"  -> fowler4_calc_exposure(frames, time_per_frame)
      [] mode = "FOWLER8"  -> fowler8_calc_exposure(frames, time_per_frame)
      [] mode = "FOWLER16" -> fowler16_calc_exposure(frames, time_per_frame)

calc_effective_exposure_time(_settings, frames) ==
    EXPOSURE_TIME_PER_FRAMES(_settings.MODE, frames, _settings.FRAMETIMESEC)

----------------------------------------------------------------------------
(* numpy values of the model: an integer dtype is [unsigned, bits]; a reduced
   pixel is the exact fraction num / den (den = 0 is numpy's nan, the mean of
   an empty slice), or the exception the reduction raised *)

RECURSIVE SeqSum(_)
SeqSum(s) == IF s = <<>> THEN 0 ELSE Head(s) + SeqSum(Tail(s))

Min2(a, b) == IF a < b THEN a ELSE b
Max2(a, b) == IF a > b THEN a ELSE b

\* Python slice bound i of a sequence of length n
PyBound(i, n) == Max2(0, Min2(n, IF i < 0 THEN i + n ELSE i))

\* seq[lo:hi] of Python, on a 1-based TLA+ sequence
PySlice(seq, lo, hi) ==
    SubSeq(seq, PyBound(lo, Len(seq)) + 1, PyBound(hi, Len(seq)))

Pow2(n) == 2 ^ n

\* ndarray.astype(t) and the arithmetic of dtype t on one integer sample:
\* reduction modulo 2^bits.  The samples of the model are at most 16 bits wide,
\* so no value leaves the 32-bit range and the 32-bit wrap is not computed.
AsType(v, t) ==
    IF t.bits >= 32 THEN v
    ELSE IF t.unsigned THEN v % Pow2(t.bits)
    ELSE ((v + Pow2(t.bits - 1)) % Pow2(t.bits)) - Pow2(t.bits - 1)

Value(n, d) == [err |-> "none", num |-> n, den |-> d]
Raised(e) == [err |-> e, num |-> 0, den |-> 0]

\* ndarray.mean(axis=0) of a slice of the ramp
Mean(s) == [num |-> SeqSum(s), den |-> Len(s)]

----------------------------------------------------------------------------
(* utils/image.py: ramp reduction, for one pixel of the ramp *)

\* the subtraction done in the dtype of the samples, without the widening
cds_image_type_unwidened(dtype) ==
    dtype

\* image.py:379-383: a dtype named u<int><p> becomes <int><2p>
cds_image_type(dtype) ==
    IF dtype.unsigned
    THEN [unsigned |-> FALSE, bits |-> dtype.bits * 2]
    ELSE dtype

cds_frame_reduce(images, dtype) ==
    LET image_type == cds_image_type(dtype)
    IN  Value(AsType(AsType(images[Len(images)], image_type)
                        - AsType(images[1], image_type), image_type), 1)

ssr_frame_reduce(images, dtype) ==
    Value(images[Len(images)], 1)

mean_frame_reduce(images, dtype) ==
    Value(SeqSum(images), Len(images))

\* numpy.ndarray has no attribute mode
mode_frame_reduce(images, dtype) ==
    Raised("AttributeError")

RECURSIVE SeqMax(_)
SeqMax(s) == IF Len(s) = 1 THEN s[1] ELSE Max2(Head(s), SeqMax(Tail(s)))

RECURSIVE SeqMin(_)
SeqMin(s) == IF Len(s) = 1 THEN s[1] ELSE Min2(Head(s), SeqMin(Tail(s)))

max_frame_reduce(images, dtype) ==
    Value(SeqMax(images), 1)

min_frame_reduce(images, dtype) ==
    Value(SeqMin(images), 1)

\* numpy.ndarray has no attribute median
median_frame_reduce(images, dtype) ==
    Raised("AttributeError")

\* image.py:413-415: end is images[-1-fowler_number:-1], which stops before
\* the last frame
fowler_frame_reduce(images, fowler_number) ==
    LET start == Mean(PySlice(images, 0, fowler_number))
        end == Mean(PySlice(images, -1 - fowler_number, -1))
    IN  Value(end.num * start.den - start.num * end.den, end.den * start.den)

fowler2_frame_reduce(images, dtype) ==
    fowler_frame_reduce(images, 2)

fowler4_frame_reduce(images, dtype) ==
    fowler_frame_reduce(images, 4)

fowler8_frame_reduce(images, dtype) ==
    fowler_frame_reduce(images, 8)

fowler16_frame_reduce(images, dtype) ==
    fowler_frame_reduce(images, 16)

FRAME_REDUCE_METHODS(mode, images, dtype) ==
    CASE mode = "CDS"      -> cds_frame_reduce(images, dtype)
      [] mode = "SSR"      -> ssr_frame_reduce(images, dtype)
      [] mode = "MEAN"     -> mean_frame_reduce(images, dtype)
      [] mode = "MEDIAN"   -> median_frame_reduce(images, dtype)
      [] mode = "MODE"     -> mode_frame_reduce(images, dtype)
      [] mode = "MIN"      -> min_frame_reduce(images, dtype)
      [] mode = "MAX"      -> max_frame_reduce(images, dtype)
      [] mode = "FOWLER2"  -> fowler2_frame_reduce(images, dtype)
      [] mode = "FOWLER4"  -> fowler4_frame_reduce(images, dtype)
      [] mode = "FOWLER8"  -> fowler8_frame_reduce(images, dtype)
      [] mode = "FOWLER16" -> fowler16_frame_reduce(images, dtype)

reduce_image_from_array(_settings, image_array, dtype) ==
    FRAME_REDUCE_METHODS(_settings.MODE, image_array, dtype)

INTERMEDIATE_FRAME_REDUCE_METHODS(mode, images, dtype) ==
    CASE mode = "CDS"      -> cds_frame_reduce(images, dtype)
      [] mode = "SSR"      -> ssr_frame_reduce(images, dtype)
      [] mode = "MEAN"     -> mean_frame_reduce(images, dtype)
      [] mode = "MEDIAN"   -> median_frame_reduce(images, dtype)
      [] mode = "MODE"     -> mode_frame_reduce(images, dtype)
      [] mode = "MIN"      -> min_frame_reduce(images, dtype)
      [] mode = "MAX"      -> max_frame_reduce(images, dtype)
      [] mode = "FOWLER2"  -> cds_frame_reduce(images, dtype)
      [] mode = "FOWLER4"  -> cds_frame_reduce(images, dtype)
      [] mode = "FOWLER8"  -> cds_frame_reduce(images, dtype)
      [] mode = "FOWLER16" -> cds_frame_reduce(images, dtype)

intermediate_reduce_image_from_array(_settings, image_array, dtype) ==
    INTERMEDIATE_FRAME_REDUCE_METHODS(_settings.MODE, image_array, dtype)

FowlerNumber(mode) ==
    CASE mode = "FOWLER2" -> 2
      [] mode = "FOWLER4" -> 4
      [] mode = "FOWLER8" -> 8
      [] mode = "FOWLER16" -> 16
      [] OTHER -> 0

----------------------------------------------------------------------------
(* utils/image.py: BaseImage.deinterlace.  Arrays are flat, row-major
   sequences of a frame_y x frame_x image (numpy's reshape changes the shape,
   not the order), with 0-based positions p held at sequence index p + 1. *)

\* number of columns of image[:, nheaders:]
NoHeaderColumns(frame_x, nheaders) == Max2(0, frame_x - nheaders)

\* number of columns of no_header_image[:, i::nch]
SourceColumnCount(i, nch, w) ==
    IF i >= w THEN 0 ELSE (w - i + nch - 1) \div nch

\* the slice taken without its stride
SourceColumnUnstrided(i, j, nch) == i + j

\* j-th (0-based) column of no_header_image[:, i::nch]
SourceColumn(i, j, nch) == i + j * nch

\* the odd channels written one column to the right of their range
DestColumnShifted(i, j, nch_pix) ==
    IF i % 2 = 0 THEN i * nch_pix + j ELSE (i + 1) * nch_pix - j

\* j-th (0-based) column written by channel i: i*nch_pix + j for even i, and
\* the slice (i+1)*nch_pix-1 : i*nch_pix-1 : -1 for odd i
DestColumn(i, j, nch_pix) ==
    IF i % 2 = 0 THEN i * nch_pix + j ELSE (i + 1) * nch_pix - 1 - j

\* numpy assigns an (h, m) source to an (h, nch_pix) slice when the widths
\* agree or the source is one column wide (broadcast, also onto zero columns);
\* otherwise it raises ValueError
DeinterlaceRaises(frame_x, nch, nheaders) ==
    LET w == NoHeaderColumns(frame_x, nheaders)
        nch_pix == w \div nch
    IN  \E i \in 0..(nch - 1) :
            /\ SourceColumnCount(i, nch, w) # nch_pix
            /\ SourceColumnCount(i, nch, w) # 1

\* one row of data_dein: 0.0 * no_header_image, then the channel assignments
DataDeinRow(row, nch, nheaders) ==
    LET w == NoHeaderColumns(Len(row), nheaders)
        nch_pix == w \div nch
        Writers(c) == {ij \in (0..(nch - 1)) \X (0..(nch_pix - 1)) :
                            DestColumn(ij[1], ij[2], nch_pix) = c}
    IN  [c1 \in 1..w |->
            IF Writers(c1 - 1) = {} THEN 0
            ELSE LET ij == CHOOSE x \in Writers(c1 - 1) : TRUE
                     m == SourceColumnCount(ij[1], nch, w)
                     src == SourceColumn(ij[1], IF m = 1 THEN 0 ELSE ij[2], nch)
                 IN  row[nheaders + src + 1]]

\* self.image[:, nheaders:] = data_dein, row by row
deinterlace(image, frame_x, frame_y, nch, nheaders) ==
    LET Row(y) == SubSeq(image, y * frame_x + 1, (y + 1) * frame_x)
        NewRow(y) == SubSeq(Row(y), 1, Min2(nheaders, frame_x))
                        \o DataDeinRow(Row(y), nch, nheaders)
    IN  Flatten([y1 \in 1..frame_y |-> NewRow(y1 - 1)])

----------------------------------------------------------------------------
(* detector/macie/io.py: the deinterleaving partition *)

\* the blocks of one camera taken as consecutive instead of interleaved
index_matcher_by_frame(b, n_asics, blocks_per_frame) ==
    b \div blocks_per_frame

\* np.arange(total_data_blocks) % n_asics, at block b
index_matcher(b, n_asics, blocks_per_frame) ==
    b % n_asics

RECURSIVE SelectBlocks(_, _, _, _)
\* the blocks b, b+1, ... below total_data_blocks whose index_matcher is i
SelectBlocks(b, i, g, total_data_blocks) ==
    IF b >= total_data_blocks THEN <<>>
    ELSE (IF index_matcher(b, g.n_asics, g.blocks_per_frame) = i THEN <<b>> ELSE <<>>)
            \o SelectBlocks(b + 1, i, g, total_data_blocks)

\* g: the session's frame_x, frame_y, frame_size, science_read_block_size,
\* blocks_per_frame, total_frame_size and n_asics = len(list_asics).
\* The result is the exception raised or the array built.
gen_asic_data_frame_deinterleaving_array(g, _settings) ==
    LET total_data_blocks == g.blocks_per_frame * g.n_asics
        r == g.science_read_block_size
        \* all_indices[b] = arange(total_frame_size).reshape(blocks, r)[b]
        all_indices(b) == [k1 \in 1..r |-> b * r + (k1 - 1)]
        rows(i) == LET sel == SelectBlocks(0, i, g, total_data_blocks)
                   IN  [n \in 1..Len(sel) |-> all_indices(sel[n])]
        plain == [i1 \in 1..g.n_asics |-> Flatten(rows(i1 - 1))]
    IN  IF total_data_blocks * r # g.total_frame_size
        THEN [err |-> "ValueError", array |-> <<>>]      \* reshape of arange
        ELSE IF \E i1 \in 1..g.n_asics : Len(plain[i1]) # g.frame_size
        THEN [err |-> "ValueError", array |-> <<>>]      \* reshape(frame_size)
        ELSE IF ~_settings.DEINTERLACE
        THEN [err |-> "none", array |-> plain]
        ELSE IF /\ g.n_asics > 0
                /\ DeinterlaceRaises(g.frame_x, _settings.NUMBEROFREADOUTCHANNELS,
                                     _settings.NUMBEROFSCIENCEHEADERSPERROW)
        THEN [err |-> "ValueError", array |-> <<>>]
        ELSE [err |-> "none",
              array |-> [i1 \in 1..g.n_asics |->
                            deinterlace(plain[i1], g.frame_x, g.frame_y,
                                        _settings.NUMBEROFREADOUTCHANNELS,
                                        _settings.NUMBEROFSCIENCEHEADERSPERROW)]]

\* all_data_array[indices] for each row of the deinterleaving array
deinterleave(all_data_array, deinterleaving_array) ==
    [i1 \in 1..Len(deinterleaving_array) |->
        [p1 \in 1..Len(deinterleaving_array[i1]) |->
            all_data_array[deinterleaving_array[i1][p1] + 1]]]

----------------------------------------------------------------------------
(* detector/macie/io.py: the skip schedule of BaseMACIE.start, lines 485-493.
   An entry is TRUE for a skipped frame and FALSE for a kept one. *)

\* a pass that appends the kept entry and no skipped ones
SkipsLoopBodyKeptOnly(skips, remaining_frames, skip_frames) ==
    [skips |-> skips \o <<FALSE>>,
     remaining_frames |-> remaining_frames - 1]

\* one pass of the while loop, lines 488-492
SkipsLoopBody(skips, remaining_frames, skip_frames) ==
    [skips |-> skips \o <<FALSE>> \o [i \in 1..skip_frames |-> TRUE],
     remaining_frames |-> remaining_frames - 1 - Max2(0, skip_frames)]

\* the schedule returned without the slice of line 493
TruncateSkipsOmitted(skips, science_frames) ==
    skips

\* skips[:science_frames], line 493
TruncateSkips(skips, science_frames) ==
    PySlice(skips, 0, science_frames)

RECURSIVE SkipsLoop(_, _, _)
SkipsLoop(skips, remaining_frames, skip_frames) ==
    IF remaining_frames > 0
    THEN LET b == SkipsLoopBody(skips, remaining_frames, skip_frames)
         IN  SkipsLoop(b.skips, b.remaining_frames, skip_frames)
    ELSE skips

\* lines 485-493 as one computation, for the actions that run start() whole
SkipSchedule(science_frames, skip_frames) ==
    TruncateSkips(SkipsLoop(<<>>, science_frames, skip_frames), science_frames)

----------------------------------------------------------------------------
(* detector/macie/io.py: the interface object of one MACIE card, its snapshot
   on disk (save / load) and the commands that open, initialise and reload a
   session.  A file name is the sequence of the serial numbers it was formatted
   from, so that two names written without a separator read back as one name
   of no file.  A deinterleaving array is [rows |-> ...] once built by
   gen_asic_data_frame_deinterleaving_array and [arange |-> n] for the
   constructor's np.asarray([np.arange(n)]). *)

\* defaults of the constructor's frame_x and frame_y
DefaultFrameX == 4224
DefaultFrameY == 4096

RECURSIVE SetBits(_, _)
\* [2**power for power, bit in enumerate(bin_string) if int(bit)], from power on
SetBits(integer, power) ==
    IF integer = 0 THEN <<>>
    ELSE (IF integer % 2 = 1 THEN <<Pow2(power)>> ELSE <<>>)
            \o SetBits(integer \div 2, power + 1)

\* the lowest bit only
composite_byte_to_byte_list_lowest(integer) ==
    IF integer % 2 = 1 THEN <<1>> ELSE <<>>

composite_byte_to_byte_list(integer) ==
    SetBits(integer, 0)

RECURSIVE Log2(_)
\* int(np.log2(i))
Log2(i) == IF i <= 1 THEN 0 ELSE 1 + Log2(i \div 2)

byte_list_to_index_list(byte_list) ==
    [k \in 1..Len(byte_list) |-> Log2(byte_list[k])]

\* header.header_format: the keys the session writes at init and at start
header_format == [MACIESN |-> 0, DEINTERL |-> TRUE, NRESETS |-> 0]

\* BaseMACIE.__init__ (the ACADIA classes add protocol constants only)
BaseMACIE(_settings, sn, frame_x, frame_y) ==
    [sn |-> sn, all_asics |-> 0, list_asics |-> <<>>, list_asics_index |-> <<>>,
     frame_x |-> frame_x, frame_y |-> frame_y, frame_size |-> frame_x * frame_y,
     reset_frames |-> _settings.ASICRESETFRAMES,
     science_read_block_size |-> frame_x,
     blocks_per_frame |-> (frame_x * frame_y) \div frame_x,
     total_frame_size |-> frame_x * frame_y,
     deinterleaving_array |-> [arange |-> frame_x * frame_y],
     cam_names |-> <<>>,
     header |-> header_format]

\* the argument gen_asic_data_frame_deinterleaving_array reads off the object
GeometryOf(self) ==
    [frame_x |-> self.frame_x, frame_y |-> self.frame_y, frame_size |-> self.frame_size,
     science_read_block_size |-> self.science_read_block_size,
     blocks_per_frame |-> self.blocks_per_frame,
     total_frame_size |-> self.total_frame_size,
     n_asics |-> Len(self.list_asics)]

\* BaseMACIE.get_available_asics, the hardware reporting the bitmask all_asics
get_available_asics(self, all_asics) ==
    [self EXCEPT !.all_asics = all_asics,
                 !.list_asics = composite_byte_to_byte_list(all_asics),
                 !.list_asics_index =
                     byte_list_to_index_list(composite_byte_to_byte_list(all_asics))]

\* BaseMACIE.gen_cam_names: the names, or the IndexError of the subscript
gen_cam_names(self, _settings) ==
    IF \E k \in 1..Len(self.list_asics_index) :
           self.list_asics_index[k] >= Len(_settings.CAMERANAMES)
    THEN [error |-> "IndexError", cam_names |-> self.cam_names]
    ELSE [error |-> "none",
          cam_names |-> [k \in 1..Len(self.list_asics_index) |->
                            _settings.CAMERANAMES[self.list_asics_index[k] + 1]]]

\* BaseMACIE.init with no load files; all_asics is what the hardware reports
\* if the object asks.  The result is the exception that leaves init and the
\* object as the call left it.
init(self, _settings, all_asics) ==
    LET s1 == IF self.all_asics = 0 THEN get_available_asics(self, all_asics) ELSE self
        s2 == [s1 EXCEPT !.blocks_per_frame = s1.frame_size \div s1.science_read_block_size,
                         !.total_frame_size = s1.frame_size * Len(s1.list_asics_index)]
        built == gen_asic_data_frame_deinterleaving_array(GeometryOf(s2), _settings)
        s3 == [s2 EXCEPT !.deinterleaving_array = [rows |-> built.array]]
        names == gen_cam_names(s3, _settings)
        s4 == [s3 EXCEPT !.cam_names = names.cam_names]
    IN  IF built.err # "none" THEN [error |-> built.err, self |-> s2]
        ELSE IF names.error # "none" THEN [error |-> names.error, self |-> s3]
        ELSE [error |-> "none",
              self |-> [s4 EXCEPT !.header.MACIESN = s4.sn,
                                  !.header.DEINTERL = _settings.DEINTERLACE]]

\* the header keys start() writes, for the test exposure of acadias_init
StartHeader(self) ==
    [self EXCEPT !.header.NRESETS = self.reset_frames]

\* BaseMACIE.gen_save_name
gen_save_name(self) == <<self.sn>>

\* BaseMACIE.gen_save_dict: the keys of the document that the model carries
gen_save_dict(self) ==
    [sn |-> self.sn, all_asics |-> self.all_asics, list_asics |-> self.list_asics,
     list_asics_index |-> self.list_asics_index,
     frame_x |-> self.frame_x, frame_y |-> self.frame_y, frame_size |-> self.frame_size,
     reset_frames |-> self.reset_frames,
     science_read_block_size |-> self.science_read_block_size,
     blocks_per_frame |-> self.blocks_per_frame,
     total_frame_size |-> self.total_frame_size,
     cam_names |-> self.cam_names,
     header |-> self.header]

\* BaseMACIE.save: the document under the object's name, then the array in
\* the one file asic_data_deinterleaving_array.npy
save(disk, self) ==
    [disk EXCEPT !.docs = (gen_save_name(self) :> gen_save_dict(self)) @@ disk.docs,
                 !.npy = <<self.deinterleaving_array>>]

RECURSIVE SaveAll(_, _)
\* [macie_interface.save() for macie_interface in macie_interfaces]
SaveAll(disk, macie_interfaces) ==
    IF macie_interfaces = <<>> THEN disk
    ELSE SaveAll(save(disk, Head(macie_interfaces)), Tail(macie_interfaces))

\* gen_macie_interface_storage_file: f.writelines(filenames)
gen_macie_interface_storage_file(disk, filenames) ==
    [disk EXCEPT !.opened = <<Flatten(filenames)>>]

\* BaseMACIE.load_asic_data_frame_deinterleaving_array: the file, or without
\* it the array built anew, or with a ValueError from that the array kept
load_asic_data_frame_deinterleaving_array(self, disk, _settings) ==
    IF disk.npy # <<>>
    THEN [self EXCEPT !.deinterleaving_array = disk.npy[1]]
    ELSE LET built == gen_asic_data_frame_deinterleaving_array(GeometryOf(self), _settings)
         IN  IF built.err = "none"
             THEN [self EXCEPT !.deinterleaving_array = [rows |-> built.array]]
             ELSE self

\* load_interface and the assignments of BaseMACIE.load: an object of the
\* class's defaults, the fields of the document assigned one by one
LoadFields(disk, save_dict_file_name, _settings) ==
    LET save_dict == disk.docs[save_dict_file_name]
        fresh == BaseMACIE(_settings, 0, DefaultFrameX, DefaultFrameY)
    IN  [fresh EXCEPT !.sn = save_dict.sn,
                      !.all_asics = save_dict.all_asics,
                      !.list_asics = save_dict.list_asics,
                      !.list_asics_index = save_dict.list_asics_index,
                      !.frame_x = save_dict.frame_x,
                      !.frame_y = save_dict.frame_y,
                      !.frame_size = save_dict.frame_size,
                      !.reset_frames = save_dict.reset_frames,
                      !.science_read_block_size = save_dict.science_read_block_size,
                      !.blocks_per_frame = save_dict.blocks_per_frame,
                      !.total_frame_size = save_dict.total_frame_size,
                      !.cam_names = save_dict.cam_names,
                      !.header = save_dict.header]

\* the deinterleaving array left as the constructor made it
load_array_kept(disk, save_dict_file_name, _settings) ==
    LoadFields(disk, save_dict_file_name, _settings)

\* BaseMACIE.load: the fields, then the deinterleaving array
load(disk, save_dict_file_name, _settings) ==
    load_asic_data_frame_deinterleaving_array(
        LoadFields(disk, save_dict_file_name, _settings), disk, _settings)

\* load_macie_interfaces_from_storage_file: f.readlines() of the storage file
\* and load_interface on every line
load_macie_interfaces_from_storage_file(disk, _settings) ==
    IF disk.opened = <<>>
    THEN [error |-> "FileNotFoundError", macie_interfaces |-> <<>>]
    ELSE LET filenames == IF disk.opened[1] = <<>> THEN <<>> ELSE <<disk.opened[1]>>
         IN  IF \E k \in 1..Len(filenames) : filenames[k] \notin DOMAIN disk.docs
             THEN [error |-> "FileNotFoundError", macie_interfaces |-> <<>>]
             ELSE [error |-> "none",
                   macie_interfaces |-> [k \in 1..Len(filenames) |->
                                            load(disk, filenames[k], _settings)]]

\* acadias_open returning the empty list instead of raising
acadias_open_unchecked(cards, _settings) ==
    [error |-> "none",
     macie_interfaces |->
        LET usable == SelectSeq(cards, LAMBDA card : card.usable)
        IN  [k \in 1..Len(usable) |->
                BaseMACIE(_settings, usable[k].sn, _settings.FRAMEX, _settings.FRAMEY)]]

\* acadias_open: one opened interface per card that has a connection to use
acadias_open(cards, _settings) ==
    LET usable == SelectSeq(cards, LAMBDA card : card.usable)
        macie_interfaces ==
            [k \in 1..Len(usable) |->
                BaseMACIE(_settings, usable[k].sn, _settings.FRAMEX, _settings.FRAMEY)]
    IN  IF macie_interfaces = <<>>
        THEN [error |-> "MissingMACIEError", macie_interfaces |-> <<>>]
        ELSE [error |-> "none", macie_interfaces |-> macie_interfaces]

----------------------------------------------------------------------------
(* Idle values of the variable groups a specification does not use *)

CalcIdle == [pc |-> "off", exposure_time |-> 0, science_frames |-> 0, effective |-> 0]
RedIdle == [pc |-> "off"]
GeomIdle == [frame_x |-> 1, frame_y |-> 1, frame_size |-> 1, science_read_block_size |-> 1,
             blocks_per_frame |-> 1, total_frame_size |-> 1, n_asics |-> 1]
DeintIdle == [pc |-> "off", err |-> "none", deinterleaving_array |-> <<>>,
              all_data |-> <<>>, asic_frames |-> <<>>]
SkIdle == [pc |-> "off", exposure_time |-> 0, skip_time |-> 0, science_frames |-> 0,
           skip_frames |-> 0, skips |-> <<>>, remaining_frames |-> 0]
NoError == [error |-> "none", thread |-> "", cam |-> 0, frame |-> 0, reset |-> FALSE]
CmdIdle == [pc |-> "off", command |-> "", save_science_frame |-> TRUE,
            exposure_time |-> 0, skip_time |-> 0, num_exposures |-> 0,
            exposure |-> 0, skips |-> <<>>, total_frames |-> 0, reset_done |-> 0,
            science_done |-> 0, joined |-> 0, reinits |-> 0, raised |-> NoError,
            science_interface |-> "closed"]
StatusIdle == [CurrentCommand |-> "", CommandComplete |-> FALSE, TotalFrameCount |-> 0,
               ExposureTimeRemaining |-> 0, ExposureFrames |-> <<>>,
               IntermediateReducedFrames |-> <<>>, FinalReducedFrame |-> <<>>]
SrvIdle == [handler |-> <<>>, threads |-> {}, received |-> 0]
SvIdle == [pc |-> "off", plan |-> <<>>, captured |-> 0,
           header |-> [FRAME |-> 0, ISRESET |-> FALSE], lock |-> "free", threads |-> <<>>]
CkIdle == [pc |-> "off", list_asics_index |-> <<>>, cam_names |-> <<>>,
           science_frames |-> 0, handled |-> <<>>, reduced |-> {}, entries |-> {}]
AcqOff ==
    /\ chip = <<>>
    /\ cmd = CmdIdle
    /\ status = StatusIdle
    /\ status_file = StatusIdle
    /\ srv = SrvIdle
    /\ sv = SvIdle
    /\ ck = CkIdle
    /\ session = <<>>
    /\ files = {}
    /\ hf = <<>>
    /\ ht = <<>>
    /\ rf = <<>>
StoreIdle == [pc |-> "off", command |-> "", error |-> "none", commands |-> 0,
              usable_cards |-> 0, inits |-> 0, units |-> <<>>, produced |-> <<>>,
              disk |-> [docs |-> <<>>, npy |-> <<>>, opened |-> <<>>]]
AcqIdle ==
    /\ AcqOff
    /\ store = StoreIdle

----------------------------------------------------------------------------
(* SpecFrames: calc_num_frames followed by calc_effective_exposure_time *)

InitFrames ==
    /\ settings \in {[DefaultSettings EXCEPT !.MODE = m, !.FRAMETIMESEC = ft] :
                        m \in Modes, ft \in FrameTimes}
    /\ calc \in {[pc |-> "requested", exposure_time |-> t, science_frames |-> 0,
                  effective |-> 0] : t \in 0..MaxExposureTicks}
    /\ red = RedIdle
    /\ geom = GeomIdle
    /\ deint = DeintIdle
    /\ sk = SkIdle
    /\ AcqIdle

CalcNumFrames ==
    /\ calc.pc = "requested"
    /\ calc' = [calc EXCEPT !.pc = "frames",
                            !.science_frames = calc_num_frames(settings, calc.exposure_time)]
    /\ UNCHANGED <<settings, red, geom, deint, sk>>
    /\ UNCHANGED acqvars

CalcEffectiveExposureTime ==
    /\ calc.pc = "frames"
    /\ calc' = [calc EXCEPT !.pc = "exposure",
                            !.effective = calc_effective_exposure_time(settings, calc.science_frames)]
    /\ UNCHANGED <<settings, red, geom, deint, sk>>
    /\ UNCHANGED acqvars

NextFrames ==
    \/ CalcNumFrames
    \/ CalcEffectiveExposureTime

SpecFrames == InitFrames /\ [][NextFrames]_vars

\* C1: for every reduction mode and every requested exposure time t >= 0, the
\* effective exposure computed back from the frame count differs from t by at
\* most one frame time.
RoundTripWithinOneFrameTime ==
    calc.pc = "exposure" =>
        Abs(calc.effective - calc.exposure_time) <= settings.FRAMETIMESEC

----------------------------------------------------------------------------
(* SpecReduce: reduce_image_from_array on one pixel of a ramp *)

UInt8 == [unsigned |-> TRUE, bits |-> 8]
UInt16 == [unsigned |-> TRUE, bits |-> 16]

\* samples of a dtype: low values, and the largest value it holds
SampleValues(dtype) == {0, 100, 150, Pow2(dtype.bits) - 1}

Ramps(dtype) ==
    UNION {[1..n -> SampleValues(dtype)] : n \in 1..MaxRampLen}

InitReduce ==
    /\ settings \in {[DefaultSettings EXCEPT !.MODE = m] : m \in Modes}
    /\ red \in {[pc |-> "ramp", dtype |-> d, images |-> r, value |-> Value(0, 1)] :
                    d \in {UInt8, UInt16}, r \in Ramps(UInt8) \cup Ramps(UInt16)}
    /\ red.images \in Ramps(red.dtype)
    /\ calc = CalcIdle
    /\ geom = GeomIdle
    /\ deint = DeintIdle
    /\ sk = SkIdle
    /\ AcqIdle

ReduceImageFromArray ==
    /\ red.pc = "ramp"
    /\ red' = [red EXCEPT !.pc = "reduced",
                          !.value = reduce_image_from_array(settings, red.images, red.dtype)]
    /\ UNCHANGED <<settings, calc, geom, deint, sk>>
    /\ UNCHANGED acqvars

NextReduce ==
    \/ ReduceImageFromArray

SpecReduce == InitReduce /\ [][NextReduce]_vars

First(images) == images[1]
Last(images) == images[Len(images)]

\* C2: for every pair of unsigned 16-bit samples (first, last) of a ramp, CDS
\* reduce returns the mathematical difference last - first as a signed value,
\* never the difference taken modulo 2^16 when last < first.
CdsSignedDifference ==
    (red.pc = "reduced" /\ settings.MODE = "CDS" /\ red.dtype = UInt16) =>
        /\ red.value.err = "none"
        /\ red.value.den = 1
        /\ red.value.num = Last(red.images) - First(red.images)
        /\ Last(red.images) < First(red.images) =>
              red.value.num # (Last(red.images) - First(red.images)) % Pow2(16)

\* C2 witness: the ramp [150, 100] of unsigned 16-bit samples reduced to -50
CdsNegativeDrift ==
    /\ red.pc = "reduced"
    /\ settings.MODE = "CDS"
    /\ red.dtype = UInt16
    /\ red.images = <<150, 100>>
    /\ red.value.num = -50

\* C5: for FOWLER-k and every ramp of at least 2k frames, reduce returns the
\* mean of the last k frames minus the mean of the first k frames.
FowlerLastMinusFirstMeans ==
    LET k == FowlerNumber(settings.MODE)
        n == Len(red.images)
    IN  (red.pc = "reduced" /\ k > 0 /\ n >= 2 * k) =>
            /\ red.value.err = "none"
            /\ red.value.den # 0
            /\ red.value.num * k =
                  red.value.den * (SeqSum(SubSeq(red.images, n - k + 1, n))
                                      - SeqSum(SubSeq(red.images, 1, k)))

----------------------------------------------------------------------------
(* SpecDeint: init's geometry and partition (io.py:310-312), then one raw
   frame deinterleaved (io.py:418).  The constructor sets
   science_read_block_size to frame_x; the partition code reads it as a free
   field, and the model tries every block size up to the frame size. *)

Geometries ==
    {[frame_x |-> x, frame_y |-> y, frame_size |-> x * y,
      science_read_block_size |-> r,
      blocks_per_frame |-> 0, total_frame_size |-> 0, n_asics |-> c] :
        x \in 1..MaxFrameX, y \in 1..MaxFrameY, r \in 1..(MaxFrameX * MaxFrameY),
        c \in 1..MaxAsics}

InitDeint ==
    /\ settings \in {[DefaultSettings EXCEPT !.DEINTERLACE = d,
                                             !.NUMBEROFREADOUTCHANNELS = nch,
                                             !.NUMBEROFSCIENCEHEADERSPERROW = nh] :
                        d \in BOOLEAN, nch \in 1..MaxChannels, nh \in 0..MaxHeaders}
    /\ geom \in Geometries
    /\ geom.science_read_block_size <= geom.frame_size
    /\ deint = [DeintIdle EXCEPT !.pc = "opened"]
    /\ calc = CalcIdle
    /\ red = RedIdle
    /\ sk = SkIdle
    /\ AcqIdle

\* BaseMACIE.init, lines 310-312
InitPartition ==
    /\ deint.pc = "opened"
    /\ LET g == [geom EXCEPT
                    !.blocks_per_frame = geom.frame_size \div geom.science_read_block_size,
                    !.total_frame_size = geom.frame_size * geom.n_asics]
           built == gen_asic_data_frame_deinterleaving_array(g, settings)
       IN  /\ geom' = g
           /\ deint' = [deint EXCEPT
                          !.pc = IF built.err = "none" THEN "built" ELSE "failed",
                          !.err = built.err,
                          !.deinterleaving_array = built.array]
    /\ UNCHANGED <<settings, calc, red, sk>>
    /\ UNCHANGED acqvars

\* a raw buffer of total_frame_size distinct samples
Buffer(pattern, size) == [q1 \in 1..size |-> (q1 - 1) * (pattern + 1) + pattern]

\* BaseMACIE.handle_frames, line 418, on the buffer read by capture_frame
DeinterleaveFrame ==
    /\ deint.pc = "built"
    /\ \E pattern \in 0..MaxPattern :
        LET all_data == Buffer(pattern, geom.total_frame_size)
        IN  deint' = [deint EXCEPT
                        !.pc = "deinterleaved",
                        !.all_data = all_data,
                        !.asic_frames = deinterleave(all_data, deint.deinterleaving_array)]
    /\ UNCHANGED <<settings, geom, calc, red, sk>>
    /\ UNCHANGED acqvars

NextDeint ==
    \/ InitPartition
    \/ DeinterleaveFrame

SpecDeint == InitDeint /\ [][NextDeint]_vars

PartitionBuilt == deint.pc \in {"built", "deinterleaved"}

Range(f) == {f[x] : x \in DOMAIN f}

\* the index arrays have frame_size entries each, are pairwise disjoint and
\* cover [0, frame_size * n_asics)
IsPartition ==
    LET da == deint.deinterleaving_array
    IN  /\ Len(da) = geom.n_asics
        /\ \A i \in 1..Len(da) :
              /\ Len(da[i]) = geom.frame_size
              /\ Cardinality(Range(da[i])) = geom.frame_size
        /\ \A i, j \in 1..Len(da) : i # j => Range(da[i]) \cap Range(da[j]) = {}
        /\ UNION {Range(da[i]) : i \in 1..Len(da)} = 0..(geom.frame_size * geom.n_asics - 1)

ChannelsDivideColumns ==
    NoHeaderColumns(geom.frame_x, settings.NUMBEROFSCIENCEHEADERSPERROW)
        % settings.NUMBEROFREADOUTCHANNELS = 0

CameraOf(i) == (i \div geom.science_read_block_size) % geom.n_asics

PositionOf(i) ==
    ((i \div geom.science_read_block_size) \div geom.n_asics) * geom.science_read_block_size
        + (i % geom.science_read_block_size)

\* C4: with channel deinterlacing disabled, global index i is assigned to
\* camera (i div r) mod c at position ((i div r) div c) * r + (i mod r), and
\* deinterleave() returns for each camera the buffer samples at its indices in
\* that order.
PartitionFollowsBlockRule ==
    (PartitionBuilt /\ ~settings.DEINTERLACE) =>
        \A i \in 0..(geom.total_frame_size - 1) :
            /\ deint.deinterleaving_array[CameraOf(i) + 1][PositionOf(i) + 1] = i
            /\ deint.pc = "deinterleaved" =>
                  deint.asic_frames[CameraOf(i) + 1][PositionOf(i) + 1] = deint.all_data[i + 1]

\* C4 witness: a frame of three cameras and two blocks per camera deinterleaved
InterleavedFrameSplit ==
    /\ deint.pc = "deinterleaved"
    /\ ~settings.DEINTERLACE
    /\ geom.n_asics = 3
    /\ geom.blocks_per_frame = 2
    /\ geom.science_read_block_size >= 2
    /\ deint.asic_frames[2][1] = deint.all_data[geom.science_read_block_size + 1]

----------------------------------------------------------------------------
(* SpecSkips: lines 479-493 of BaseMACIE.start, the while loop one pass per
   step.  The loop is sequential code of one thread, hence weakly fair. *)

InitSkips ==
    /\ settings \in {[DefaultSettings EXCEPT !.MODE = m, !.FRAMETIMESEC = ft] :
                        m \in Modes, ft \in FrameTimes}
    /\ sk \in {[SkIdle EXCEPT !.pc = "start", !.exposure_time = t, !.skip_time = s] :
                    t \in 0..MaxExposureTicks, s \in 0..MaxSkipTicks}
    /\ calc = CalcIdle
    /\ red = RedIdle
    /\ geom = GeomIdle
    /\ deint = DeintIdle
    /\ AcqIdle

\* lines 480-486
SkipsBegin ==
    /\ sk.pc = "start"
    /\ LET science_frames == calc_num_frames(settings, sk.exposure_time)
       IN  sk' = [sk EXCEPT !.pc = "loop",
                            !.science_frames = science_frames,
                            !.skip_frames = ssr_calc_frames(sk.skip_time, settings.FRAMETIMESEC),
                            !.skips = <<>>,
                            !.remaining_frames = science_frames]
    /\ UNCHANGED <<settings, calc, red, geom, deint>>
    /\ UNCHANGED acqvars

\* lines 487-492, one pass
SkipsPass ==
    /\ sk.pc = "loop"
    /\ sk.remaining_frames > 0
    /\ LET b == SkipsLoopBody(sk.skips, sk.remaining_frames, sk.skip_frames)
       IN  sk' = [sk EXCEPT !.skips = b.skips, !.remaining_frames = b.remaining_frames]
    /\ UNCHANGED <<settings, calc, red, geom, deint>>
    /\ UNCHANGED acqvars

\* line 493, once the loop condition fails
SkipsTruncate ==
    /\ sk.pc = "loop"
    /\ ~(sk.remaining_frames > 0)
    /\ sk' = [sk EXCEPT !.pc = "built",
                        !.skips = TruncateSkips(sk.skips, sk.science_frames)]
    /\ UNCHANGED <<settings, calc, red, geom, deint>>
    /\ UNCHANGED acqvars

NextSkips ==
    \/ SkipsBegin
    \/ SkipsPass
    \/ SkipsTruncate

SpecSkips == InitSkips /\ [][NextSkips]_vars /\ WF_vars(NextSkips)

\* a schedule that starts with a kept entry, has skip_frames skipped entries
\* after every kept entry unless the end cuts them off, a kept entry after
\* them, and science_frames entries in all
ScheduleShape(skips, science_frames, skip_frames) ==
    /\ Len(skips) = science_frames
    /\ Len(skips) > 0 => skips[1] = FALSE
    /\ \A i \in 1..Len(skips) :
          skips[i] = FALSE =>
              /\ \A j \in 1..skip_frames : i + j <= Len(skips) => skips[i + j] = TRUE
              /\ i + skip_frames + 1 <= Len(skips) => skips[i + skip_frames + 1] = FALSE

\* C10: the skip schedule built by start begins with a kept entry, every kept
\* entry is followed by exactly round(skipTime/frameTime) skipped entries unless
\* cut off by the end of the schedule, its length is the science-frame count of
\* framesForExposure, and building it terminates.  (An empty schedule, for a
\* frame count of zero, has no first entry.)
SkipScheduleBuilt ==
    /\ [](sk.pc = "built" =>
            /\ sk.science_frames = calc_num_frames(settings, sk.exposure_time)
            /\ ScheduleShape(sk.skips, sk.science_frames,
                             Round(sk.skip_time, settings.FRAMETIMESEC)))
    /\ <>(sk.pc = "built")

\* C10 witness: a schedule with two skipped entries after each kept one, cut
\* off after the second of three
SkipScheduleCutOff ==
    /\ sk.pc = "built"
    /\ sk.skips = <<FALSE, TRUE, TRUE, FALSE, TRUE>>

\* the positions of the kept entries of a schedule
KeptEntries(skips) ==
    {i \in 1..Len(skips) : skips[i] = FALSE}

\* exactly s skipped entries, and no kept one, between consecutive kept entries
SkippedBetweenKept(skips, s) ==
    \A i \in KeptEntries(skips) : \A j \in KeptEntries(skips) :
        (i < j /\ \A m \in (i + 1)..(j - 1) : skips[m] = TRUE) => j - i - 1 = s

\* a built schedule of a request whose skip time is s whole frame times
WholeSkipBuilt ==
    /\ sk.pc = "built"
    /\ sk.skip_time % settings.FRAMETIMESEC = 0

\* C11 as stated: for a request that needs N science frames with skipTime =
\* s * frameTime, the schedule has exactly N kept entries, with exactly s
\* skipped entries between consecutive kept entries.
SkipScheduleKeepsAllFrames ==
    WholeSkipBuilt =>
        /\ Cardinality(KeptEntries(sk.skips)) = sk.science_frames
        /\ SkippedBetweenKept(sk.skips, sk.skip_time \div settings.FRAMETIMESEC)

\* C11 amended: the schedule has N entries in all, skipped ones included; the
\* kept ones are every (s+1)-th entry from the first, ceil(N / (s+1)) of them,
\* with exactly s skipped entries between consecutive kept entries.
SkipScheduleKeepsEveryNth ==
    WholeSkipBuilt =>
        LET s == sk.skip_time \div settings.FRAMETIMESEC
            N == sk.science_frames
        IN  /\ Len(sk.skips) = N
            /\ KeptEntries(sk.skips) = {i \in 1..N : (i - 1) % (s + 1) = 0}
            /\ Cardinality(KeptEntries(sk.skips)) = (N + s) \div (s + 1)
            /\ SkippedBetweenKept(sk.skips, s)

\* C11 witness: ten science frames with a skip time of two frame times, four
\* of the ten entries kept
TenFramesSkipTwo ==
    /\ WholeSkipBuilt
    /\ sk.science_frames = 10
    /\ sk.skip_time = 2 * settings.FRAMETIMESEC
    /\ sk.skips = <<FALSE, TRUE, TRUE, FALSE, TRUE, TRUE, FALSE, TRUE, TRUE, FALSE>>

----------------------------------------------------------------------------
(* SpecSession: the commands OPEN, INIT and START as far as they create, save
   and reload the interface objects.  Every command runs in a process of its
   own and leaves behind only the files: io_open saves what acadias_open
   found, io_init loads, initialises, runs the test exposure and saves, and
   io_start loads.  The cards the hardware shows, the ASIC bitmask it reports
   and the outcome of the test exposure are inputs.  The file of the
   deinterleaving array may be missing when a session is loaded, which load
   provides for. *)

\* the cards check_interfaces may report: serial numbers 1, 2, ..., each with
\* or without a connection that can be used; acadias_open treats the cards one
\* by one, so those with a connection are listed first.  usable_cards, inits and produced
\* of the store keep, for the properties, the number of such cards the last
\* OPEN saw, the number of INITs that returned since the last OPEN and the
\* objects the last of them saved.
CardSets ==
    {[k \in 1..n |-> [sn |-> k, usable |-> k <= u]] :
        n \in 0..MaxUnits, u \in 0..MaxUnits}

AsicMasks == 0..(Pow2(MaxAsicBits) - 1)

sessvars == <<settings, calc, red, geom, deint, sk, chip, cmd, status, status_file, session,
              files, hf, ht, rf, srv, sv, ck>>

InitStore ==
    /\ settings \in {[DefaultSettings EXCEPT !.DEINTERLACE = d,
                                             !.NUMBEROFREADOUTCHANNELS = nch,
                                             !.FRAMEX = x, !.FRAMEY = y] :
                        d \in BOOLEAN, nch \in 1..MaxChannels,
                        x \in 1..MaxFrameX, y \in 1..MaxFrameY}
    /\ store = [StoreIdle EXCEPT !.pc = "closed"]
    /\ calc = CalcIdle
    /\ red = RedIdle
    /\ geom = GeomIdle
    /\ deint = DeintIdle
    /\ sk = SkIdle
    /\ AcqOff

\* the command ends with an exception, which execute_command catches
CommandFailed(command, error) ==
    [store EXCEPT !.pc = "failed", !.command = command, !.error = error,
                  !.commands = @ + 1, !.units = <<>>]

\* the command returns, the interface objects and the files as given
CommandReturned(command, units, disk) ==
    [store EXCEPT !.pc = "returned", !.command = command, !.error = "none",
                  !.commands = @ + 1, !.units = units, !.disk = disk]

\* io_open, lines 1203-1220
IoOpen ==
    /\ store.pc # "off"
    /\ store.commands < MaxCommands
    /\ \E cards \in CardSets :
          LET opened == acadias_open(cards, settings)
              macie_interfaces == opened.macie_interfaces
              save_files == [k \in 1..Len(macie_interfaces) |->
                                gen_save_name(macie_interfaces[k])]
              disk == gen_macie_interface_storage_file(
                          SaveAll(store.disk, macie_interfaces), save_files)
              usable_cards == Cardinality({k \in 1..Len(cards) : cards[k].usable})
          IN  store' = IF opened.error # "none"
                       THEN [CommandFailed("OPEN", opened.error)
                                EXCEPT !.usable_cards = usable_cards]
                       ELSE [CommandReturned("OPEN", macie_interfaces, disk)
                                EXCEPT !.usable_cards = usable_cards,
                                       !.produced = <<>>, !.inits = 0]
    /\ UNCHANGED sessvars

\* io_init, lines 1223-1238, with acadias_init
IoInit ==
    /\ store.pc # "off"
    /\ store.commands < MaxCommands
    /\ LET loaded == load_macie_interfaces_from_storage_file(store.disk, settings)
           n == Len(loaded.macie_interfaces)
           \* the hardware is asked for the bitmask by an object that has none
           reported == {f \in [1..n -> AsicMasks] :
                          \A k \in 1..n :
                              loaded.macie_interfaces[k].all_asics # 0 => f[k] = 0}
       IN  \E all_asics \in reported, test_exposure_returns \in BOOLEAN :
          LET inits == [k \in 1..n |-> init(loaded.macie_interfaces[k], settings, all_asics[k])]
              raisers == {k \in 1..n : inits[k].error # "none"}
              first == CHOOSE k \in raisers : \A j \in raisers : k <= j
              init_interfaces == [k \in 1..n |-> StartHeader(inits[k].self)]
              save_files == [k \in 1..n |-> gen_save_name(init_interfaces[k])]
              disk == gen_macie_interface_storage_file(
                          SaveAll(store.disk, init_interfaces), save_files)
          IN  store' = IF loaded.error # "none"
                       THEN CommandFailed("INIT", loaded.error)
                       ELSE IF raisers # {}
                       THEN CommandFailed("INIT", inits[first].error)
                       ELSE IF ~test_exposure_returns
                       THEN CommandFailed("INIT", "TimeoutError")
                       ELSE [CommandReturned("INIT", init_interfaces, disk)
                                EXCEPT !.produced = init_interfaces, !.inits = @ + 1]
    /\ UNCHANGED sessvars

\* io_start, lines 1254-1266, up to the call of acadias_acquire
IoStart ==
    /\ store.pc # "off"
    /\ store.commands < MaxCommands
    /\ LET loaded == load_macie_interfaces_from_storage_file(store.disk, settings)
       IN  store' = IF loaded.error # "none"
                    THEN CommandFailed("START", loaded.error)
                    ELSE CommandReturned("START", loaded.macie_interfaces, store.disk)
    /\ UNCHANGED sessvars

\* asic_data_deinterleaving_array.npy is no longer there between two commands
PartitionFileMissing ==
    /\ store.pc \in {"returned", "failed"}
    /\ store.disk.npy # <<>>
    /\ store' = [store EXCEPT !.disk.npy = <<>>]
    /\ UNCHANGED sessvars

NextSession ==
    \/ IoOpen
    \/ IoInit
    \/ IoStart
    \/ PartitionFileMissing

SpecSession == InitStore /\ [][NextSession]_vars

----------------------------------------------------------------------------
(* Spec: one START command on one interface.  The command thread runs
   Start.execute_command -> io_start -> acadias_acquire -> BaseMACIE.start
   once per exposure; every captured frame gets a handle_frames thread, which
   starts one handle_frame thread per camera; start() ends by starting the
   reduce_frames thread.  io_start loads a fresh interface object for every
   exposure, so ramps and resync are kept per exposure.  A join with a timeout
   is a choice: it returns once the joined thread has ended, and it may time
   out as long as that thread is still running. *)

\* the number of science-header words that switches telemetry decoding on
TelemetryWords == 6

Cameras == DOMAIN chip

\* header.asic_chip_id_lower_matching: settings['ASICCHIPIDLOWER'], chip id -> camera
asic_chip_id_lower_matching == [i \in Cameras |-> i]

\* the contents of status_template.json for the open cameras
StatusTemplate ==
    [CurrentCommand |-> "", CommandComplete |-> FALSE, TotalFrameCount |-> 0,
     ExposureTimeRemaining |-> 0,
     ExposureFrames |-> [c \in Cameras |-> <<>>],
     IntermediateReducedFrames |-> [c \in Cameras |-> <<>>],
     FinalReducedFrame |-> [c \in Cameras |-> <<>>]]

\* Status.update_current_command: a fresh status file, reloaded into memory
update_current_command(_status, command) ==
    [StatusTemplate EXCEPT !.CurrentCommand = command]

\* JSONHandler.save_dict_to_json: the document holds the dictionary as it is
\* at the call
save_dict_to_json(dictionary) == dictionary

update_command_complete(_status) ==
    [_status EXCEPT !.CommandComplete = TRUE]

\* the status update left out
update_exposure_time_remaining_dropped(_status, exposure_time) ==
    _status

update_exposure_time_remaining(_status, exposure_time) ==
    [_status EXCEPT !.ExposureTimeRemaining = exposure_time]

update_total_frame_count(_status, frame_count) ==
    [_status EXCEPT !.TotalFrameCount = frame_count]

update_exposure_frames(_status, frame_file, camera_number) ==
    [_status EXCEPT !.ExposureFrames[camera_number] = Append(@, frame_file)]

update_intermediate_reduced_frame_frames(_status, frame_file, camera_number) ==
    [_status EXCEPT !.IntermediateReducedFrames[camera_number] = Append(@, frame_file)]

update_final_reduced_exposure(_status, frame_file, camera_number) ==
    [_status EXCEPT !.FinalReducedFrame[camera_number] = frame_file]

\* the chip id read from the telemetry word of the frame
ScienceWordsLookupOfWord(science_words) ==
    [error |-> "none", value |-> science_words]

\* science_words['ASICIDLOWERTELEMETRYCOLUMN']: an ndarray indexed by a string
ScienceWordsLookup(science_words) ==
    [error |-> "IndexError", value |-> 0]

\* BaseACADIA.parse_science_header: the camera the frame is filed under, whether
\* the call sets self.resync, and the exception that leaves the call
parse_science_header(n_science_headers, chip_id_lower, cam_index) ==
    IF n_science_headers = TelemetryWords
    THEN LET key == ScienceWordsLookup(chip_id_lower)
         IN  CASE key.error = "none" /\ key.value \in DOMAIN asic_chip_id_lower_matching ->
                    [error |-> "none", resync |-> FALSE,
                     cam_index |-> asic_chip_id_lower_matching[key.value]]
               [] key.error = "none" /\ key.value \notin DOMAIN asic_chip_id_lower_matching ->
                    [error |-> "none", resync |-> TRUE, cam_index |-> cam_index]
               [] OTHER ->
                    [error |-> key.error, resync |-> FALSE, cam_index |-> cam_index]
    ELSE [error |-> "none", resync |-> FALSE, cam_index |-> cam_index]

\* names produced by gen_detector_file_name for exposure e
raw_frame_file(e, cam, frame) == <<"raw", e, cam, frame>>
reset_frame_file(e, cam, frame) == <<"reset", e, cam, frame>>
res_frame_file(e, cam, frame) == <<"res", e, cam, frame>>
reduced_file(e, cam) == <<"reduced", e, cam, 0>>

\* capture_frame lines 329-332: the name of the reduced file with the frame
\* number in place of the camera and .npy in place of .fits
numpy_frame_file(e, frame_number) == <<"npy", e, frame_number, 0>>

\* capture_frame lines 329-332: the buffer of the frame saved as it was read
SaveNumpyArray(frame_number) ==
    IF settings.SAVENUMPYARRAY
    THEN files \cup {numpy_frame_file(cmd.exposure, frame_number)}
    ELSE files

ExposureTimes == {n * DefaultSettings.FRAMETIMESEC : n \in 0..MaxExposureFrameTimes}
SkipTimes == {n * DefaultSettings.FRAMETIMESEC : n \in 0..MaxSkipFrameTimes}

\* the START messages a client may send: exposure time, skip time, exposures
StartMessages(times, exposures) ==
    {[CmdIdle EXCEPT !.pc = "listening", !.command = "START",
                     !.exposure_time = t, !.skip_time = s, !.num_exposures = n] :
        t \in times, s \in SkipTimes, n \in exposures}

\* the INIT message, which takes no arguments
InitMessages ==
    {[CmdIdle EXCEPT !.pc = "listening", !.command = "INIT", !.num_exposures = 1]}

InitSession ==
    /\ status = StatusTemplate
    /\ status_file = StatusTemplate
    /\ srv = SrvIdle
    /\ sv = SvIdle
    /\ ck = CkIdle
    /\ session = <<>>
    /\ files = {}
    /\ hf = <<>>
    /\ ht = <<>>
    /\ rf = <<>>
    /\ store = StoreIdle
    /\ calc = CalcIdle
    /\ red = RedIdle
    /\ geom = GeomIdle
    /\ deint = DeintIdle
    /\ sk = SkIdle

\* one exposure, over the settings and the telemetry of up to MaxCameras cameras
Init ==
    /\ settings \in {[DefaultSettings EXCEPT !.MODE = m, !.SAVERESETFRAMES = s,
                                             !.NUMBEROFSCIENCEHEADERSPERROW = h,
                                             !.AUTORESYNC = a] :
                        m \in {"CDS", "SSR"}, s \in BOOLEAN, h \in {0, TelemetryWords},
                        a \in BOOLEAN}
    /\ chip \in UNION {[0..(n - 1) -> 0..n] : n \in 1..MaxCameras}
    /\ settings.NUMBEROFSCIENCEHEADERSPERROW = 0 => \A c \in DOMAIN chip : chip[c] = c
    /\ cmd \in StartMessages(ExposureTimes, {1}) \cup InitMessages
    /\ InitSession

\* up to MaxExposures exposures of the shortest exposure time, on one camera
\* with the default settings
InitExposures ==
    /\ settings \in {[DefaultSettings EXCEPT !.MODE = m] : m \in {"CDS", "SSR"}}
    /\ chip = [c \in {0} |-> c]
    /\ cmd \in StartMessages({0}, 1..MaxExposures) \cup InitMessages
    /\ InitSession

offvars == <<settings, calc, red, geom, deint, sk, chip, store, srv, sv, ck>>

\* interface.py execute_command, lines 268-283, with Start.parse_arguments done
ReceiveStart ==
    /\ cmd.pc = "listening"
    /\ cmd.command = "START"
    /\ cmd' = [cmd EXCEPT !.pc = "io_start", !.exposure = 1]
    /\ status' = update_current_command(status, "START")
    /\ status_file' = save_dict_to_json(status')
    /\ UNCHANGED <<offvars, session, files, hf, ht, rf>>

\* execute_command with the INIT command: io_init and acadias_init up to the
\* test exposure of lines 1103-1107, start(FRAMETIMESEC, skip_time=0,
\* save_science_frame=False)
ReceiveInit ==
    /\ cmd.pc = "listening"
    /\ cmd.command = "INIT"
    /\ cmd' = [cmd EXCEPT !.pc = "io_start", !.exposure = 1,
                          !.exposure_time = settings.FRAMETIMESEC, !.skip_time = 0,
                          !.save_science_frame = FALSE]
    /\ status' = update_current_command(status, "INIT")
    /\ status_file' = save_dict_to_json(status')
    /\ UNCHANGED <<offvars, session, files, hf, ht, rf>>

\* io_start and load_interface, then BaseMACIE.start lines 479-522;
\* configure_science_interface of line 497 opens the science interface
StartBegin ==
    /\ cmd.pc = "io_start"
    /\ LET science_frames == calc_num_frames(settings, cmd.exposure_time)
           skip_frames == ssr_calc_frames(cmd.skip_time, settings.FRAMETIMESEC)
           total_frames == settings.ASICRESETFRAMES + science_frames
       IN  /\ cmd' = [cmd EXCEPT !.pc = "capture",
                                 !.skips = SkipSchedule(science_frames, skip_frames),
                                 !.total_frames = total_frames,
                                 !.reset_done = 0, !.science_done = 0, !.joined = 0,
                                 !.science_interface = "configured"]
           /\ status' = update_exposure_time_remaining(
                            update_total_frame_count(status, science_frames),
                            total_frames * settings.FRAMETIMESEC)
    /\ session' = session @@ (cmd.exposure :>
                      [ramps |-> [c \in Cameras |-> <<>>], resync |-> FALSE])
    /\ UNCHANGED <<offvars, status_file, files, hf, ht, rf>>

\* threading.Thread(target=self.handle_frames, ...).start() in capture_frame
NewHandleFrames(skip_frame, save_science_frame) ==
    [pc |-> "run", skip_frame |-> skip_frame, save_science_frame |-> save_science_frame,
     join |-> 0, raised |-> NoError]

\* the science loop entered without waiting for the reset loop
ResetLoopEndedAtOnce == TRUE

\* the reset loop, for frame in range(self.reset_frames), has run out
ResetLoopEnded == cmd.reset_done = settings.ASICRESETFRAMES

\* one pass of the reset loop, lines 524-529, with capture_frame
CaptureResetFrame ==
    /\ cmd.pc = "capture"
    /\ cmd.reset_done < settings.ASICRESETFRAMES
    /\ files' = SaveNumpyArray(cmd.reset_done)
    /\ hf' = hf @@ (<<cmd.exposure, TRUE, cmd.reset_done>> :> NewHandleFrames(FALSE, cmd.save_science_frame))
    /\ cmd' = [cmd EXCEPT !.total_frames = @ - 1, !.reset_done = @ + 1]
    /\ status' = update_exposure_time_remaining(
                     status, (cmd.total_frames - 1) * settings.FRAMETIMESEC)
    /\ UNCHANGED <<offvars, status_file, session, ht, rf>>

\* one pass of the science loop, lines 532-537, with capture_frame
CaptureScienceFrame ==
    /\ cmd.pc = "capture"
    /\ ResetLoopEnded
    /\ cmd.science_done < Len(cmd.skips)
    /\ files' = SaveNumpyArray(cmd.science_done)
    /\ hf' = hf @@ (<<cmd.exposure, FALSE, cmd.science_done>> :>
                        NewHandleFrames(cmd.skips[cmd.science_done + 1],
                                        cmd.save_science_frame))
    /\ cmd' = [cmd EXCEPT !.total_frames = @ - 1, !.science_done = @ + 1]
    /\ status' = update_exposure_time_remaining(
                     status, (cmd.total_frames - 1) * settings.FRAMETIMESEC)
    /\ UNCHANGED <<offvars, status_file, session, ht, rf>>

Capturing ==
    /\ cmd.pc = "capture"
    /\ ResetLoopEnded
    /\ cmd.science_done = Len(cmd.skips)

\* lines 539-541: the join of a science frame's thread returns, the thread has ended
StartJoin ==
    /\ Capturing
    /\ cmd.joined < Len(cmd.skips)
    /\ hf[<<cmd.exposure, FALSE, cmd.joined>>].pc \in {"done", "raised"}
    /\ cmd' = [cmd EXCEPT !.joined = @ + 1]
    /\ UNCHANGED <<offvars, status, status_file, session, files, hf, ht, rf>>

\* lines 539-542: the join times out; the TimeoutError leaves start, past
\* close_science_interface of line 553, and is caught by execute_command,
\* lines 292-294
StartJoinTimeout ==
    /\ Capturing
    /\ cmd.joined < Len(cmd.skips)
    /\ hf[<<cmd.exposure, FALSE, cmd.joined>>].pc \notin {"done", "raised"}
    /\ cmd' = [cmd EXCEPT !.pc = "failed",
                          !.raised = [error |-> "TimeoutError", thread |-> "handle_frames",
                                      cam |-> 0, frame |-> cmd.joined, reset |-> FALSE]]
    /\ status' = update_command_complete(status)
    /\ status_file' = save_dict_to_json(status')
    /\ UNCHANGED <<offvars, session, files, hf, ht, rf>>

\* lines 543-554, then for START acadias_acquire lines 1138-1143, the exposure loop of
\* Start.execute_command and execute_command lines 284-286
StartReturn ==
    /\ Capturing
    /\ cmd.joined = Len(cmd.skips)
    /\ rf' = IF cmd.save_science_frame
             THEN rf @@ (cmd.exposure :> [pc |-> "run", cams |-> <<>>])
             ELSE rf
    /\ LET reinit == /\ cmd.command = "START"
                     /\ session[cmd.exposure].resync
                     /\ settings.AUTORESYNC
       IN  IF cmd.exposure < cmd.num_exposures
           THEN /\ cmd' = [cmd EXCEPT !.pc = "io_start", !.exposure = @ + 1,
                                      !.science_interface = "closed",
                                      !.reinits = IF reinit THEN @ + 1 ELSE @]
                /\ UNCHANGED <<status, status_file>>
           ELSE /\ cmd' = [cmd EXCEPT !.pc = "returned",
                                      !.science_interface = "closed",
                                      !.reinits = IF reinit THEN @ + 1 ELSE @]
                /\ status' = update_command_complete(status)
                /\ status_file' = save_dict_to_json(status')
    /\ UNCHANGED <<offvars, session, files, hf, ht>>

\* the result of format_frame_info for every camera of the zip of line 421
FrameInfo == [p \in Cameras |->
                 parse_science_header(settings.NUMBEROFSCIENCEHEADERSPERROW, chip[p], p)]

\* cameras whose format_frame_info raises
FrameInfoRaisers == {p \in Cameras : FrameInfo[p].error # "none"}

\* cameras the loop of lines 421-436 reaches without raising
FrameInfoStarted == {p \in Cameras : \A q \in FrameInfoRaisers : p < q}

\* the frame is passed on to handle_frame threads, line 419
FrameIsHandled(k) ==
    (~k[2] \/ settings.SAVERESETFRAMES) /\ ~hf[k].skip_frame /\ hf[k].save_science_frame

\* handle_frames lines 418-436: deinterleave, then one handle_frame thread per
\* camera; an exception of format_frame_info ends the thread
HandleFramesBegin(k) ==
    /\ hf[k].pc = "run"
    /\ IF ~FrameIsHandled(k)
       THEN /\ hf' = [hf EXCEPT ![k].pc = "done"]
            /\ UNCHANGED <<ht, session>>
       ELSE /\ ht' = ht @@ [t \in {<<k, p>> : p \in FrameInfoStarted} |->
                               [pc |-> "run", cam_index |-> FrameInfo[t[2]].cam_index]]
            /\ session' = [session EXCEPT ![k[1]].resync =
                               @ \/ \E p \in Cameras :
                                       /\ FrameInfo[p].resync
                                       /\ \A q \in FrameInfoRaisers : p < q]
            /\ hf' = [hf EXCEPT ![k] =
                         IF FrameInfoRaisers = {}
                         THEN [@ EXCEPT !.pc = "join"]
                         ELSE [@ EXCEPT !.pc = "raised",
                                  !.raised = [error |-> "IndexError", thread |-> "handle_frames",
                                              cam |-> 0, frame |-> k[3], reset |-> k[2]]]]
    /\ UNCHANGED <<offvars, cmd, status, status_file, files, rf>>

\* handle_frames lines 437-439: the join of the next camera's thread returns
HandleFramesJoin(k) ==
    /\ hf[k].pc = "join"
    /\ ht[<<k, hf[k].join>>].pc # "run"
    /\ hf' = [hf EXCEPT ![k].join = @ + 1,
                        ![k].pc = IF hf[k].join + 1 = Cardinality(Cameras) THEN "done" ELSE "join"]
    /\ UNCHANGED <<offvars, cmd, status, status_file, session, files, ht, rf>>

\* the timeout taken as a cancellation of the camera's thread
HandleFramesJoinTimeoutCancelling(k) ==
    /\ hf[k].pc = "join"
    /\ ht[<<k, hf[k].join>>].pc = "run"
    /\ hf' = [hf EXCEPT ![k].pc = "raised",
                        ![k].raised = [error |-> "TimeoutError", thread |-> "handle_frame",
                                       cam |-> ht[<<k, hf[k].join>>].cam_index,
                                       frame |-> k[3], reset |-> k[2]]]
    /\ ht' = [ht EXCEPT ![<<k, hf[k].join>>].pc = "cancelled"]
    /\ UNCHANGED <<offvars, cmd, status, status_file, session, files, rf>>

\* handle_frames lines 437-440: the join times out and the TimeoutError, which
\* names the camera's thread, ends the handle_frames thread
HandleFramesJoinTimeout(k) ==
    /\ hf[k].pc = "join"
    /\ ht[<<k, hf[k].join>>].pc = "run"
    /\ hf' = [hf EXCEPT ![k].pc = "raised",
                        ![k].raised = [error |-> "TimeoutError", thread |-> "handle_frame",
                                       cam |-> ht[<<k, hf[k].join>>].cam_index,
                                       frame |-> k[3], reset |-> k[2]]]
    /\ UNCHANGED <<offvars, cmd, status, status_file, session, files, ht, rf>>

\* one pixel of every frame of a ramp, for the reductions that only have to run
Blank(n) == [i \in 1..n |-> 0]

\* every frame recorded, reset frames included
RecordsFrameAlways(reset) == TRUE

\* handle_frame line 445: the frame is recorded in the status and in the ramp
RecordsFrame(reset) == ~reset

\* handle_frame lines 442-456
HandleFrame(t) ==
    /\ ht[t].pc = "run"
    /\ LET e == t[1][1]
           reset == t[1][2]
           frame_number == t[1][3]
           cam == ht[t].cam_index
           raw_fname == IF reset THEN reset_frame_file(e, cam, frame_number)
                                 ELSE raw_frame_file(e, cam, frame_number)
           ramp == Append(session[e].ramps[cam], raw_fname)
           reduced == intermediate_reduce_image_from_array(settings, Blank(Len(ramp)), UInt16)
           f_name == res_frame_file(e, cam, frame_number)
       IN  IF ~RecordsFrame(reset)
           THEN /\ files' = files \cup {raw_fname}
                /\ ht' = [ht EXCEPT ![t].pc = "done"]
                /\ UNCHANGED <<status, session>>
           ELSE /\ session' = [session EXCEPT ![e].ramps[cam] = ramp]
                /\ IF ~settings.REDUCEINTERMEDIATEFRAMES
                   THEN /\ files' = files \cup {raw_fname}
                        /\ status' = update_exposure_frames(status, raw_fname, cam)
                        /\ ht' = [ht EXCEPT ![t].pc = "done"]
                   ELSE IF reduced.err # "none"
                   THEN /\ files' = files \cup {raw_fname}
                        /\ status' = update_exposure_frames(status, raw_fname, cam)
                        /\ ht' = [ht EXCEPT ![t].pc = "raised"]
                   ELSE /\ files' = files \cup {raw_fname, f_name}
                        /\ status' = update_intermediate_reduced_frame_frames(
                                         update_exposure_frames(status, raw_fname, cam),
                                         f_name, cam)
                        /\ ht' = [ht EXCEPT ![t].pc = "done"]
    /\ UNCHANGED <<offvars, cmd, status_file, hf, rf>>

\* reduce_frames lines 458-462: one reduce_frame thread per camera, each given
\* the frames of the ramp as it is now
ReduceFrames(e) ==
    /\ rf[e].pc = "run"
    /\ rf' = [rf EXCEPT ![e] =
                 [pc |-> "done",
                  cams |-> IF settings.REDUCEFINALFRAME
                           THEN [c \in Cameras |->
                                    [pc |-> "run", frames |-> Len(session[e].ramps[c])]]
                           ELSE <<>>]]
    /\ UNCHANGED <<offvars, cmd, status, status_file, session, files, hf, ht>>

\* reduce_frame lines 466-473; an empty ramp has no last frame
ReduceFrame(e, c) ==
    /\ rf[e].pc = "done"
    /\ c \in DOMAIN rf[e].cams
    /\ rf[e].cams[c].pc = "run"
    /\ IF \/ rf[e].cams[c].frames = 0
          \/ session[e].ramps[c] = <<>>
          \/ reduce_image_from_array(settings, Blank(rf[e].cams[c].frames), UInt16).err # "none"
       THEN /\ rf' = [rf EXCEPT ![e].cams[c].pc = "raised"]
            /\ UNCHANGED <<status, files>>
       ELSE /\ rf' = [rf EXCEPT ![e].cams[c].pc = "done"]
            /\ files' = files \cup {reduced_file(e, c)}
            /\ status' = update_final_reduced_exposure(status, reduced_file(e, c), c)
    /\ UNCHANGED <<offvars, cmd, status_file, session, hf, ht>>

Next ==
    \/ ReceiveStart
    \/ ReceiveInit
    \/ StartBegin
    \/ CaptureResetFrame
    \/ CaptureScienceFrame
    \/ StartJoin
    \/ StartJoinTimeout
    \/ StartReturn
    \/ \E k \in DOMAIN hf : HandleFramesBegin(k)
    \/ \E k \in DOMAIN hf : HandleFramesJoin(k)
    \/ \E k \in DOMAIN hf : HandleFramesJoinTimeout(k)
    \/ \E t \in DOMAIN ht : HandleFrame(t)
    \/ \E e \in DOMAIN rf : ReduceFrames(e)
    \/ \E e \in DOMAIN rf : \E c \in Cameras : ReduceFrame(e, c)

Spec == Init /\ [][Next]_vars

SpecExposures == InitExposures /\ [][Next]_vars

----------------------------------------------------------------------------
(* Post-processing timeouts and telemetry, under Spec *)

CommandEnded == cmd.pc \in {"returned", "failed"}

\* the handle_frame threads of frame k have all ended
FrameThreadsEnded(k) ==
    /\ hf[k].pc \in {"done", "raised"}
    /\ \A t \in DOMAIN ht : t[1] = k => ht[t].pc # "run"

\* the raw file of camera cam for science frame k is saved, is in the camera's
\* ramp and is in the camera's list of the status
FiledUnder(k, cam) ==
    LET f_name == raw_frame_file(k[1], cam, k[3])
    IN  /\ f_name \in files
        /\ f_name \in Range(session[k[1]].ramps[cam])
        /\ f_name \in Range(status.ExposureFrames[cam])

\* C6: if the join of one camera's handle_frame thread times out for a frame
\* while the threads of the other cameras finish, start raises a TimeoutError
\* that names the stalled camera, and what the other cameras' threads have
\* saved and recorded for that frame stays in place.
StartRaisesNamingStalledCamera ==
    \A k \in DOMAIN hf :
        (/\ CommandEnded
         /\ ~k[2]
         /\ hf[k].raised.error = "TimeoutError"
         /\ Cameras \ {hf[k].join} # {}
         /\ \A p \in Cameras \ {hf[k].join} : ht[<<k, p>>].pc = "done")
        => /\ cmd.raised.error = "TimeoutError"
           /\ cmd.raised.thread = "handle_frame"
           /\ cmd.raised.cam = hf[k].raised.cam
           /\ \A p \in Cameras \ {hf[k].join} : FiledUnder(k, ht[<<k, p>>].cam_index)

TelemetryActive == settings.NUMBEROFSCIENCEHEADERSPERROW = TelemetryWords

\* C7: with telemetry decoding active, a science frame whose chip id maps to a
\* camera other than the expected one is, once its post-processing has ended,
\* filed under the chip-indicated camera's ramp, and resync is set.
MismatchedChipRefiledAndResync ==
    \A k \in DOMAIN hf : \A p \in Cameras :
        (/\ TelemetryActive
         /\ ~k[2]
         /\ hf[k].pc # "run" /\ FrameIsHandled(k)
         /\ FrameThreadsEnded(k)
         /\ chip[p] \in DOMAIN asic_chip_id_lower_matching
         /\ asic_chip_id_lower_matching[chip[p]] # p)
        => /\ raw_frame_file(k[1], asic_chip_id_lower_matching[chip[p]], k[3])
                 \in Range(session[k[1]].ramps[asic_chip_id_lower_matching[chip[p]]])
           /\ session[k[1]].resync

\* C8: with telemetry decoding active, a science frame whose chip id is not in
\* the lookup table keeps its expected camera, resync is set, and the
\* processing of the frame goes on without raising.
UnknownChipKeepsCameraAndResync ==
    \A k \in DOMAIN hf : \A p \in Cameras :
        (/\ TelemetryActive
         /\ ~k[2]
         /\ hf[k].pc # "run" /\ FrameIsHandled(k)
         /\ FrameThreadsEnded(k)
         /\ chip[p] \notin DOMAIN asic_chip_id_lower_matching)
        => /\ hf[k].raised.error = "none"
           /\ raw_frame_file(k[1], p, k[3]) \in Range(session[k[1]].ramps[p])
           /\ session[k[1]].resync

----------------------------------------------------------------------------
(* ExposureTimeRemaining, under SpecExposures *)

Captured == cmd.reset_done + cmd.science_done

\* a step of the capture loops: one more frame of this exposure is captured
FrameCaptured ==
    /\ cmd.pc = "capture"
    /\ cmd'.pc = "capture"
    /\ cmd'.reset_done + cmd'.science_done = Captured + 1

\* the command has captured a frame and has not returned
CommandCapturing ==
    /\ cmd.pc \in {"io_start", "capture"}
    /\ cmd.exposure > 1 \/ (cmd.pc = "capture" /\ Captured > 0)

\* start() has captured a frame of this exposure and has not returned
ExposureCapturing == cmd.pc = "capture" /\ Captured > 0

RawPersisted(k, cam) ==
    IF k[2] THEN reset_frame_file(k[1], cam, k[3]) \in files
            ELSE raw_frame_file(k[1], cam, k[3]) \in files

\* persist is true, the frame is not skipped, and it is a science frame or
\* saveResets is enabled
ShouldPersist(k) ==
    /\ hf[k].save_science_frame
    /\ ~hf[k].skip_frame
    /\ (~k[2] \/ settings.SAVERESETFRAMES)

\* C12: for every captured frame and every camera, once the frame's
\* post-processing has ended the raw image is persisted if and only if persist
\* is true, the frame is not a skipped frame, and the frame is either a science
\* frame or saveResets is enabled.
RawPersistedIffKept ==
    \A k \in DOMAIN hf : \A cam \in Cameras :
        FrameThreadsEnded(k) => (RawPersisted(k, cam) <=> ShouldPersist(k))

\* the decoder of some camera has met, in a science frame of exposure e that
\* reached it, a chip id that is absent from the lookup table or differs from the
\* expected camera: the two cases in which the decoder is to mark resync
DecoderMetDrift(e) ==
    /\ TelemetryActive
    /\ \E k \in DOMAIN hf :
          /\ k[1] = e
          /\ ~k[2]
          /\ ShouldPersist(k)
          /\ hf[k].pc # "run"
          /\ \E p \in Cameras : chip[p] # p

\* C13: if a camera's decoder had to set resync during an exposure, init is
\* re-run before the start command returns when auto-resync is configured, and
\* is not re-run when auto-resync is not configured.
ResyncReinitsWhenConfigured ==
    (/\ cmd.command = "START"
     /\ cmd.pc = "returned"
     /\ DecoderMetDrift(cmd.exposure))
        => (settings.AUTORESYNC <=> cmd.reinits > 0)

\* the fields of an interface object that init produces and start reads
SessionView(self) ==
    [frame_x |-> self.frame_x, frame_y |-> self.frame_y,
     science_read_block_size |-> self.science_read_block_size,
     total_frame_size |-> self.total_frame_size,
     list_asics_index |-> self.list_asics_index, cam_names |-> self.cam_names,
     reset_frames |-> self.reset_frames, header |-> self.header,
     deinterleaving_array |-> self.deinterleaving_array]

\* START has loaded, in a process of its own, the session an INIT saved
LoadedInitialized ==
    /\ store.command = "START"
    /\ store.error = "none"
    /\ store.produced # <<>>

\* C14: saving an initialized session and loading it in a new process restores
\* the geometry (frame width, height, read-block size, total buffer size), the
\* camera list and names, the reset-frame count, the header template and the
\* deinterleaving partition that init produced.
LoadRestoresInitializedSession ==
    LoadedInitialized =>
        /\ Len(store.units) = Len(store.produced)
        /\ \A k \in 1..Len(store.units) :
              SessionView(store.units[k]) = SessionView(store.produced[k])

\* C14 witness: a session of two cameras loaded with its partition of two rows
TwoCameraSessionLoaded ==
    /\ LoadedInitialized
    /\ Len(store.units[1].cam_names) = 2
    /\ Len(store.units[1].deinterleaving_array.rows) = 2

----------------------------------------------------------------------------
(* SpecFrames: the frame calculators mode by mode *)

MeanFamily == {"MEAN", "MEDIAN", "MODE", "MIN", "MAX"}
FowlerFamily == {"FOWLER2", "FOWLER4", "FOWLER8", "FOWLER16"}

\* C15: for each of the modes MEAN, MEDIAN, MODE, MIN and MAX the frame count
\* is 2 * round(t / frameTime), and the effective exposure of a frame count is
\* (frames / 2) * frameTime.
MeanFamilyTwoFramesPerFrameTime ==
    settings.MODE \in MeanFamily =>
        /\ calc.pc \in {"frames", "exposure"} =>
              calc.science_frames
                  = 2 * Round(calc.exposure_time, settings.FRAMETIMESEC)
        /\ calc.pc = "exposure" =>
              2 * calc.effective = calc.science_frames * settings.FRAMETIMESEC

\* C16: for FOWLER-k the frame count is round((t - k*frameTime)/frameTime) + 2k
\* when t - k*frameTime > 0 and exactly 2k otherwise, so it is never below 2k.
FowlerFramesClampedAtTwoK ==
    (settings.MODE \in FowlerFamily /\ calc.pc \in {"frames", "exposure"}) =>
        LET k == FowlerNumber(settings.MODE)
            remaining == calc.exposure_time - k * settings.FRAMETIMESEC
        IN  /\ calc.science_frames
                  = IF remaining > 0
                    THEN Round(remaining, settings.FRAMETIMESEC) + 2 * k
                    ELSE 2 * k
            /\ calc.science_frames >= 2 * k

\* C16 witness: a FOWLER-4 request below the minimum ramp got 8 frames, the
\* clamped case of the calculator
FowlerShortRequestClamped ==
    /\ settings.MODE = "FOWLER4"
    /\ calc.pc = "frames"
    /\ calc.exposure_time < 2 * settings.FRAMETIMESEC
    /\ calc.science_frames = 8

\* C17: for every FOWLER-k with k in {2, 4, 8, 16} and every frame count of at
\* least 2k, the effective exposure is k*frameTime + (frames - 2k)*frameTime.
FowlerExposureOfFrames ==
    (/\ settings.MODE \in FowlerFamily
     /\ calc.pc = "exposure"
     /\ calc.science_frames >= 2 * FowlerNumber(settings.MODE))
        => LET k == FowlerNumber(settings.MODE)
           IN  calc.effective
                   = k * settings.FRAMETIMESEC
                       + (calc.science_frames - 2 * k) * settings.FRAMETIMESEC

----------------------------------------------------------------------------
(* SpecSession: the partition and the geometry of the loaded sessions *)

\* a is an exact multiple of b
IsMultiple(a, b) == IF b = 0 THEN a = 0 ELSE a % b = 0

\* the partition has one row per camera, each of frame_size indices of the
\* buffer; the one-row array of the constructor counts as matching when it
\* covers a buffer of one frame of the session's size
PartitionMatchesGeometry(self) ==
    LET arr == self.deinterleaving_array
    IN  IF "rows" \in DOMAIN arr
        THEN /\ Len(arr.rows) = Len(self.list_asics)
             /\ \A i1 \in 1..Len(arr.rows) :
                   /\ Len(arr.rows[i1]) = self.frame_size
                   /\ \A p1 \in 1..Len(arr.rows[i1]) :
                         arr.rows[i1][p1] \in 0..(self.total_frame_size - 1)
        ELSE /\ arr.arange = self.frame_size
             /\ arr.arange = self.total_frame_size

\* C18: building the deinterleaving partition raises whenever the buffer size
\* is not an exact multiple of camera_count * r, and after such a failure no
\* session goes on with a partition that does not match its geometry: every
\* session a command returned with has a matching partition.
BuildFailureStopsSession ==
    (store.pc = "returned" /\ store.error = "none") =>
        \A k \in 1..Len(store.units) :
            LET self == store.units[k]
                g == GeometryOf(self)
            IN  /\ ~IsMultiple(g.total_frame_size, g.n_asics * g.science_read_block_size)
                      => gen_asic_data_frame_deinterleaving_array(g, settings).err
                             = "ValueError"
                /\ PartitionMatchesGeometry(self)

RECURSIVE PopCount(_)
\* the number of set bits of n
PopCount(n) == IF n = 0 THEN 0 ELSE (n % 2) + PopCount(n \div 2)

----------------------------------------------------------------------------
(* Ordering of frames and of post-processing, under Spec *)

\* frame k1 is captured before frame k2 of the same exposure: the reset loop
\* runs before the science loop, and each loop counts its frames up from 0
CapturedBefore(k1, k2) ==
    /\ k1[1] = k2[1]
    /\ \/ k1[2] /\ ~k2[2]
       \/ k1[2] = k2[2] /\ k1[3] < k2[3]

\* C27: across all frames captured in one exposure, the reset frames followed
\* by the science frames, the frame numbers handed to post-processing are
\* strictly increasing, so no two frames of one exposure carry the same number.
FrameNumbersStrictlyIncreasing ==
    \A k1 \in DOMAIN hf : \A k2 \in DOMAIN hf :
        CapturedBefore(k1, k2) => k1[3] < k2[3]

\* the frame number of a file name of gen_detector_file_name
FrameNumberOf(f_name) == f_name[4]

\* C23: at every point during and after an exposure each camera's ramp lists
\* its file references in strictly increasing frame-number order, under any
\* interleaving of the handle_frames and handle_frame threads.
RampsInCaptureOrder ==
    \A e \in DOMAIN session : \A c \in Cameras :
        LET ramp == session[e].ramps[c]
        IN  \A i \in 1..Len(ramp) : \A j \in 1..Len(ramp) :
                i < j => FrameNumberOf(ramp[i]) < FrameNumberOf(ramp[j])

\* C24: final reduction of an exposure starts only after every per-camera
\* post-processing task of its science frames has completed, so no ramp is
\* appended to while it is being reduced.
ReductionAfterPostProcessing ==
    \A e \in DOMAIN rf : \A t \in DOMAIN ht :
        (t[1][1] = e /\ ~t[1][2]) => ht[t].pc # "run"

\* C25: a post-processing timeout of a frame is reported only after every
\* camera's task for that frame has finished or has been waited for and found
\* slow: detecting one slow camera does not end the wait on its siblings.
TimeoutReportedAfterAllCameras ==
    \A k \in DOMAIN hf :
        (hf[k].pc = "raised" /\ hf[k].raised.error = "TimeoutError")
            => \A p \in Cameras :
                  \/ p <= hf[k].join
                  \/ ht[<<k, p>>].pc # "run"

----------------------------------------------------------------------------
(* The capture loops and the ramps, under SpecFair *)

\* a frame is captured in this step
CaptureStep == DOMAIN hf' # DOMAIN hf

\* C28: within one start exactly the configured number of reset frames is
\* captured before the first science frame, and captures are strictly
\* sequential: a step captures one frame, the next of its loop, whatever the
\* state of the post-processing threads.
ResetsThenScienceInSequence ==
    [][/\ \A k \in DOMAIN hf' :
            /\ k[2] => k[3] < settings.ASICRESETFRAMES
            /\ ~k[2] => \A n \in 0..(settings.ASICRESETFRAMES - 1) :
                            <<k[1], TRUE, n>> \in DOMAIN hf'
            /\ k[3] > 0 => <<k[1], k[2], k[3] - 1>> \in DOMAIN hf'
       /\ CaptureStep =>
            \E k \in DOMAIN hf' :
                /\ k \notin DOMAIN hf
                /\ DOMAIN hf' = DOMAIN hf \cup {k}
                /\ k[1] = cmd.exposure
                /\ k[3] = IF k[2] THEN cmd.reset_done ELSE cmd.science_done]_vars

\* C28 witness: the science frame has been captured while the handle_frames
\* thread of the reset frame has not yet run
ScienceCapturedOverPendingReset ==
    /\ <<1, TRUE, 0>> \in DOMAIN hf
    /\ <<1, FALSE, 0>> \in DOMAIN hf
    /\ hf[<<1, TRUE, 0>>].pc = "run"
    /\ cmd.reset_done = settings.ASICRESETFRAMES

IsResetFile(f_name) == f_name[1] = "reset"

\* C29: in every reachable state no reset frame's file reference is in any
\* camera's ramp or in any camera's ExposureFrames list of the status, also when
\* SAVERESETFRAMES is on, so no reduction includes a reset frame.
NoResetFrameInRamps ==
    /\ \A e \in DOMAIN session : \A c \in Cameras :
          \A i \in 1..Len(session[e].ramps[c]) : ~IsResetFile(session[e].ramps[c][i])
    /\ \A c \in DOMAIN status.ExposureFrames :
          \A i \in 1..Len(status.ExposureFrames[c]) :
              ~IsResetFile(status.ExposureFrames[c][i])

\* C29 witness: with SAVERESETFRAMES on the reset frame of a camera is saved
\* and the camera's ramp holds its science frame only
ResetSavedOutsideRamp ==
    /\ settings.SAVERESETFRAMES
    /\ \E e \in DOMAIN session : \E c \in Cameras :
          /\ reset_frame_file(e, c, 0) \in files
          /\ session[e].ramps[c] = <<raw_frame_file(e, c, 0)>>
          /\ status.ExposureFrames[c] = <<raw_frame_file(e, c, 0)>>

----------------------------------------------------------------------------
(* Channel deinterlacing of the partition, under SpecDeint *)

\* the buffer index the interleaved blocks give camera a (0-based) at position p
PlainIndex(a, p) ==
    ((p \div geom.science_read_block_size) * geom.n_asics + a)
        * geom.science_read_block_size + (p % geom.science_read_block_size)

\* C30: with channel deinterlacing enabled for nch channels of width w, in each
\* row the destination columns [i*w, (i+1)*w) of an even channel i hold the
\* source columns i, i+nch, i+2*nch, ... in that order, those of an odd channel
\* hold them in reverse order, and the header columns are unchanged.
ChannelColumnsDeinterlaced ==
    (PartitionBuilt /\ settings.DEINTERLACE /\ ChannelsDivideColumns) =>
        LET nch == settings.NUMBEROFREADOUTCHANNELS
            nh == Min2(settings.NUMBEROFSCIENCEHEADERSPERROW, geom.frame_x)
            w == (geom.frame_x - nh) \div nch
            da == deint.deinterleaving_array
        IN  \A a \in 1..Len(da) : \A y \in 0..(geom.frame_y - 1) :
                /\ \A h \in 0..(nh - 1) :
                      da[a][y * geom.frame_x + h + 1] = PlainIndex(a - 1, y * geom.frame_x + h)
                /\ \A i \in 0..(nch - 1) : \A j \in 0..(w - 1) :
                      LET dest == IF i % 2 = 0 THEN i * w + j ELSE (i + 1) * w - 1 - j
                      IN  da[a][y * geom.frame_x + nh + dest + 1]
                            = PlainIndex(a - 1, y * geom.frame_x + nh + i + j * nch)

\* C30 witness: two channels of width two on a row of four columns of one
\* camera, read in blocks of a row: columns 0 2 of channel 0, then 3 1 of
\* channel 1
TwoChannelsOfWidthTwo ==
    /\ PartitionBuilt
    /\ settings.DEINTERLACE
    /\ settings.NUMBEROFREADOUTCHANNELS = 2
    /\ settings.NUMBEROFSCIENCEHEADERSPERROW = 0
    /\ geom.frame_x = 4
    /\ geom.frame_y = 2
    /\ geom.n_asics = 1
    /\ deint.deinterleaving_array[1] = <<0, 2, 3, 1, 4, 6, 7, 5>>

----------------------------------------------------------------------------
(* SpecFair: the exposure of Spec with every handle_frame thread scheduled.
   A handle_frame thread is an ordinary thread that nothing stops: once started
   (io.py:431-436) it is run by the interpreter until handle_frame returns or
   raises, so each thread's step is weakly fair.  The command thread and the
   handle_frames threads get no fairness: a join may take any time. *)

\* the names a handle_frame thread can have in one exposure
TaskKeys ==
    {<<<<1, reset, frame>>, p>> :
        reset \in BOOLEAN, frame \in 0..1, p \in 0..(MaxTaskCameras - 1)}

\* the step of thread t once it is started
RunHandleFrame(t) == t \in DOMAIN ht /\ HandleFrame(t)

\* the shortest exposure or the test exposure of INIT, without telemetry
\* decoding, on up to MaxTaskCameras cameras
InitFair ==
    /\ settings \in {[DefaultSettings EXCEPT !.MODE = m, !.SAVERESETFRAMES = s] :
                        m \in {"CDS", "SSR"}, s \in BOOLEAN}
    /\ chip \in {[c \in 0..(n - 1) |-> c] : n \in 1..MaxTaskCameras}
    /\ cmd \in StartMessages({0}, {1}) \cup InitMessages
    /\ InitSession

SpecFair == InitFair /\ [][Next]_vars /\ \A t \in TaskKeys : WF_vars(RunHandleFrame(t))

\* the join of handle_frames on thread t has timed out
WaitTimedOut(t) ==
    /\ t \in DOMAIN ht
    /\ hf[t[1]].pc = "raised"
    /\ hf[t[1]].raised.error = "TimeoutError"
    /\ hf[t[1]].join = t[2]

\* thread t has ended with its raw file saved and, for a science frame, the
\* file in the ramp and in the status list of the camera it is filed under
TaskRecorded(t) ==
    /\ t \in DOMAIN ht
    /\ ht[t].pc # "run"
    /\ RawPersisted(t[1], ht[t].cam_index)
    /\ ~t[1][2] => FiledUnder(t[1], ht[t].cam_index)

----------------------------------------------------------------------------
(* The status document on disk, under Spec *)

\* start() is running an exposure of the command
ExposureActive == cmd.pc = "capture"

\* what a poller that reads the document finds of the produced files of
\* camera c
DocumentExposureFrames(c) ==
    IF c \in DOMAIN status_file.ExposureFrames
    THEN Range(status_file.ExposureFrames[c]) ELSE {}

\* C22: every mutation of the shared status made during an exposure is flushed
\* to the status document, so a read of the document during the exposure shows
\* every produced-file entry recorded before the read: no camera's list misses
\* an entry, and the frame count, the time remaining and the final reduced file
\* are those of the shared status.
StatusDocumentCurrent ==
    ExposureActive =>
        /\ \A c \in Cameras :
              Range(status.ExposureFrames[c]) \subseteq DocumentExposureFrames(c)
        /\ status_file.TotalFrameCount = status.TotalFrameCount
        /\ status_file.ExposureTimeRemaining = status.ExposureTimeRemaining
        /\ status_file.FinalReducedFrame = status.FinalReducedFrame

----------------------------------------------------------------------------
(* SpecServers: interface.py server().  Two servers are started with the same
   TCPHandler: a TCPServer on PORT and the StatusServer, a ThreadingMixIn
   server, on PORT + 1.  The handler of each connection runs execute_command
   for every message it reads, so INIT and START are accepted on both.  A
   command loads its own interface objects (io_init, io_start); init() rebuilds
   the deinterleaving partition, start() captures the frames and starts one
   handle_frames thread for each, which deinterleaves the frame first.  Each
   call that takes time is two steps, its entry and its return. *)

\* the connection served by the TCPServer and one served by the StatusServer
Handlers == {"PORT", "PORT+1"}

HandlerListening == [pc |-> "listening", command |-> "", frames |-> 0, captured |-> 0]

InitServers ==
    /\ settings = DefaultSettings
    /\ calc = CalcIdle
    /\ red = RedIdle
    /\ geom = GeomIdle
    /\ deint = DeintIdle
    /\ sk = SkIdle
    /\ chip = <<>>
    /\ cmd = CmdIdle
    /\ status = StatusIdle
    /\ status_file = StatusIdle
    /\ session = <<>>
    /\ files = {}
    /\ hf = <<>>
    /\ ht = <<>>
    /\ rf = <<>>
    /\ store = StoreIdle
    /\ srv = [SrvIdle EXCEPT !.handler = [h \in Handlers |-> HandlerListening]]
    /\ sv = SvIdle
    /\ ck = CkIdle

srvothers == <<settings, calc, red, geom, deint, sk, chip, cmd, status, status_file, session,
               files, hf, ht, rf, store, sv, ck>>

\* TCPHandler.handle lines 328-333 and execute_command: a message is read and
\* its command called; io_init and io_start load the interfaces first
ServerReceive(h) ==
    /\ srv.handler[h].pc = "listening"
    /\ srv.received < MaxServerCommands
    /\ \E command \in {"INIT", "START"} :
          srv' = [srv EXCEPT !.received = @ + 1,
                             !.handler[h] = [HandlerListening EXCEPT
                                                !.pc = IF command = "INIT" THEN "init" ELSE "start",
                                                !.command = command]]
    /\ UNCHANGED srvothers

\* BaseMACIE.init line 311: gen_asic_data_frame_deinterleaving_array is entered
RebuildBegin(h) ==
    /\ srv.handler[h].pc = "init"
    /\ srv' = [srv EXCEPT !.handler[h].pc = "rebuild"]
    /\ UNCHANGED srvothers

\* the partition is rebuilt; acadias_init goes on to the test exposure
RebuildEnd(h) ==
    /\ srv.handler[h].pc = "rebuild"
    /\ srv' = [srv EXCEPT !.handler[h].pc = "start"]
    /\ UNCHANGED srvothers

\* BaseMACIE.start lines 479-522: the test exposure of INIT lasts FRAMETIMESEC,
\* the exposure of this START is the shortest
ServerStartBegin(h) ==
    /\ srv.handler[h].pc = "start"
    /\ LET exposure_time == IF srv.handler[h].command = "INIT"
                            THEN settings.FRAMETIMESEC ELSE 0
       IN  srv' = [srv EXCEPT !.handler[h].pc = "capture",
                              !.handler[h].captured = 0,
                              !.handler[h].frames =
                                  settings.ASICRESETFRAMES
                                      + calc_num_frames(settings, exposure_time)]
    /\ UNCHANGED srvothers

\* capture_frame line 329: read_science_frame is called
ReadBegin(h) ==
    /\ srv.handler[h].pc = "capture"
    /\ srv.handler[h].captured < srv.handler[h].frames
    /\ srv' = [srv EXCEPT !.handler[h].pc = "read"]
    /\ UNCHANGED srvothers

\* capture_frame lines 329-339: the frame is read and its handle_frames thread
\* started
ReadEnd(h) ==
    /\ srv.handler[h].pc = "read"
    /\ srv' = [srv EXCEPT
                 !.handler[h].pc = "capture",
                 !.handler[h].captured = @ + 1,
                 !.threads = @ \cup
                     {[owner |-> h, pc |-> "started",
                       reset |-> srv.handler[h].captured < settings.ASICRESETFRAMES,
                       frame |-> srv.handler[h].captured]}]
    /\ UNCHANGED srvothers

\* handle_frames line 418: self.deinterleave is entered
DeinterleaveBegin(t) ==
    /\ t.pc = "started"
    /\ srv' = [srv EXCEPT !.threads = (@ \ {t}) \cup {[t EXCEPT !.pc = "deinterleave"]}]
    /\ UNCHANGED srvothers

\* the frame is deinterleaved; the rest of handle_frames is the subject of
\* Spec, and the thread is left out once it is past line 418
DeinterleaveEnd(t) ==
    /\ t.pc = "deinterleave"
    /\ srv' = [srv EXCEPT !.threads = @ \ {t}]
    /\ UNCHANGED srvothers

\* start lines 539-554: the handle_frames threads of the science frames are
\* joined, those of the reset frames are not; the command returns and the
\* handler reads the next message
ServerStartReturn(h) ==
    /\ srv.handler[h].pc = "capture"
    /\ srv.handler[h].captured = srv.handler[h].frames
    /\ \A t \in srv.threads : t.owner = h => t.reset
    /\ srv' = [srv EXCEPT !.handler[h] = HandlerListening]
    /\ UNCHANGED srvothers

NextServers ==
    \/ \E h \in Handlers : ServerReceive(h)
    \/ \E h \in Handlers : RebuildBegin(h)
    \/ \E h \in Handlers : RebuildEnd(h)
    \/ \E h \in Handlers : ServerStartBegin(h)
    \/ \E h \in Handlers : ReadBegin(h)
    \/ \E h \in Handlers : ReadEnd(h)
    \/ \E t \in srv.threads : DeinterleaveBegin(t)
    \/ \E t \in srv.threads : DeinterleaveEnd(t)
    \/ \E h \in Handlers : ServerStartReturn(h)

SpecServers == InitServers /\ [][NextServers]_vars

\* init() of handler h is rebuilding the partition
Rebuilding(h) == srv.handler[h].pc = "rebuild"

\* a command of another handler than h has an exposure under way
ExposureOfOther(h) ==
    \E g \in Handlers \ {h} : srv.handler[g].pc \in {"capture", "read"}

\* C21: init, which rebuilds the deinterleaving partition, never executes while
\* an exposure is active: under no interleaving of the commands the two servers
\* accept, and with no handle_frames thread that start left unjoined, does a
\* rebuild of the partition overlap an exposure, a frame capture or the
\* deinterleaving of a frame.
InitNeverOverlapsExposure ==
    \A h \in Handlers :
        Rebuilding(h) =>
            /\ ~ExposureOfOther(h)
            /\ \A t \in srv.threads : t.pc # "deinterleave"

----------------------------------------------------------------------------
(* SpecSave: the header and the file of each frame of one exposure, on one
   camera.  self.header is a dictionary of dictionaries shared by the command
   thread and by every handle_frames thread: self.header.copy() (io.py:422)
   copies the outer dictionary, so a write of header[key]['value'] is seen by
   all.  ImageHandler.save_image takes self.lock for the duration of a save.
   A thread is named <<reset, frame_number>>. *)

\* header.header_format: the keys written for each frame
FrameHeader == [FRAME |-> 0, ISRESET |-> FALSE]

\* the frames start() captures: the reset frames, then the science frames
CapturePlan(_settings, exposure_time) ==
    [n \in 1.._settings.ASICRESETFRAMES |-> <<TRUE, n - 1>>]
        \o [n \in 1..calc_num_frames(_settings, exposure_time) |-> <<FALSE, n - 1>>]

InitSave ==
    /\ settings \in {[DefaultSettings EXCEPT !.MODE = m, !.SAVERESETFRAMES = s] :
                        m \in {"CDS", "SSR"}, s \in BOOLEAN}
    /\ calc = CalcIdle
    /\ red = RedIdle
    /\ geom = GeomIdle
    /\ deint = DeintIdle
    /\ sk = SkIdle
    /\ chip = <<>>
    /\ cmd = CmdIdle
    /\ status = StatusIdle
    /\ status_file = StatusIdle
    /\ session = <<>>
    /\ files = {}
    /\ hf = <<>>
    /\ ht = <<>>
    /\ rf = <<>>
    /\ store = StoreIdle
    /\ srv = SrvIdle
    /\ ck = CkIdle
    /\ \E exposure_time \in ExposureTimes :
          sv = [SvIdle EXCEPT !.pc = "capture", !.header = FrameHeader,
                              !.plan = CapturePlan(settings, exposure_time)]

svothers == <<settings, calc, red, geom, deint, sk, chip, cmd, status, status_file, session,
              files, hf, ht, rf, store, srv, ck>>

\* capture_frame lines 326-338: the frame is read, its number written into the
\* shared header and its handle_frames thread started
SaveCapture ==
    /\ sv.pc = "capture"
    /\ sv.captured < Len(sv.plan)
    /\ LET k == sv.plan[sv.captured + 1]
       IN  sv' = [sv EXCEPT !.captured = @ + 1,
                            !.header.FRAME = k[2],
                            !.threads = @ @@ (k :> [pc |-> "started",
                                                    fits_header |-> FrameHeader])]
    /\ UNCHANGED svothers

\* handle_frames line 419 and format_frame_info lines 403-408: a frame that is
\* not kept ends the thread; otherwise the reset flag is written into the
\* shared header
WriteIsReset(k) ==
    /\ sv.threads[k].pc = "started"
    /\ IF k[1] /\ ~settings.SAVERESETFRAMES
       THEN sv' = [sv EXCEPT !.threads[k].pc = "skipped"]
       ELSE sv' = [sv EXCEPT !.header.ISRESET = k[1], !.threads[k].pc = "flagged"]
    /\ UNCHANGED svothers

\* format_frame_info line 414, utils/image.py gen_fits_header: the value of
\* every key of the shared header as it is now
gen_fits_header(header, k) == header

\* format_frame_info line 414; handle_frames lines 426-435 keep the header for
\* the handle_frame thread
GenFitsHeader(k) ==
    /\ sv.threads[k].pc = "flagged"
    /\ sv' = [sv EXCEPT !.threads[k].pc = "formatted",
                        !.threads[k].fits_header = gen_fits_header(sv.header, k)]
    /\ UNCHANGED svothers

\* handle_frame line 444, save_frame, save_image line 602: self.lock.acquire()
LockAcquire(k) ==
    /\ sv.threads[k].pc = "formatted"
    /\ sv.lock = "free"
    /\ sv' = [sv EXCEPT !.lock = "held", !.threads[k].pc = "saving"]
    /\ UNCHANGED svothers

\* save_image lines 603-611: img.save writes the file and the lock is released
SaveReturns(k) ==
    /\ sv.threads[k].pc = "saving"
    /\ sv' = [sv EXCEPT !.lock = "free", !.threads[k].pc = "saved"]
    /\ UNCHANGED svothers

\* save_image lines 603-610: ArrayImage or img.save raises (a full disk, a
\* missing directory) and the exception leaves save_image before
\* self.lock.release() of line 611
SaveRaises(k) ==
    /\ sv.threads[k].pc = "saving"
    /\ sv' = [sv EXCEPT !.lock = "held", !.threads[k].pc = "raised"]
    /\ UNCHANGED svothers

NextSave ==
    \/ SaveCapture
    \/ \E k \in DOMAIN sv.threads : WriteIsReset(k)
    \/ \E k \in DOMAIN sv.threads : GenFitsHeader(k)
    \/ \E k \in DOMAIN sv.threads : LockAcquire(k)
    \/ \E k \in DOMAIN sv.threads : SaveReturns(k)
    \/ \E k \in DOMAIN sv.threads : SaveRaises(k)

SpecSave == InitSave /\ [][NextSave]_vars

\* C31: the header persisted with a frame's raw file records that frame's own
\* frame number (FRAME) and its own reset flag (ISRESET), under any
\* interleaving of the capture loop with the handle_frames threads of earlier
\* frames.
HeaderRecordsOwnFrame ==
    \A k \in DOMAIN sv.threads :
        sv.threads[k].pc = "saved" =>
            /\ sv.threads[k].fits_header.FRAME = k[2]
            /\ sv.threads[k].fits_header.ISRESET = k[1]

\* the save_image call of thread k has ended
SaveEnded(k) == sv.threads[k].pc \in {"saved", "raised"}

\* C34: at most one image save is in progress at any time, and the save lock
\* is free again after every save_image call ends, whether it returns or
\* raises.
SaveLockFreeAfterSave ==
    /\ Cardinality({k \in DOMAIN sv.threads : sv.threads[k].pc = "saving"}) <= 1
    /\ \A k \in DOMAIN sv.threads :
          (SaveEnded(k) /\ \A k2 \in DOMAIN sv.threads : sv.threads[k2].pc # "saving")
              => sv.lock = "free"

\* ---------------------------------------------------------------------------
\* C39: every start that configured the science interface has closed it when
\* control has left start, whether start returned or an exception (the
\* TimeoutError of a post-processing thread) ended it
ScienceInterfaceClosedOnExit ==
    cmd.pc \in {"returned", "failed"} => cmd.science_interface = "closed"

\* the reduction threads of line 462 that have been started: exposure, camera
ReductionTasks == {t \in (DOMAIN rf) \X Cameras : t[2] \in DOMAIN rf[t[1]].cams}

\* C38: when the status document carries the completion mark of a START
\* command, the status holds the final reduced file of the exposure for every
\* camera
FinalFilesRecordedAtComplete ==
    (/\ cmd.command = "START"
     /\ cmd.pc = "returned"
     /\ status_file.CommandComplete
     /\ settings.REDUCEFINALFRAME
     /\ cmd.save_science_frame)
        => \A c \in Cameras :
              /\ c \in DOMAIN status.FinalReducedFrame
              /\ status.FinalReducedFrame[c] = reduced_file(cmd.exposure, c)

\* the frames the ramp has to hold for the reduction of the mode: the last
\* minus the first for CDS, two groups of fowler_number frames for FOWLER
FramesNeeded(mode) ==
    CASE mode = "CDS" -> 2
      [] FowlerNumber(mode) > 0 -> 2 * FowlerNumber(mode)
      [] OTHER -> 0

\* C35: a ramp that final reduction runs on holds at least the frames the
\* reduction mode needs
RampHoldsFramesOfMode ==
    \A t \in ReductionTasks :
        rf[t[1]].cams[t[2]].frames >= FramesNeeded(settings.MODE)

\* C36: final reduction is started for a camera only when its ramp holds a
\* frame, so that no reduce_frame indexes an empty ramp
ReductionOnlyOfFilledRamp ==
    \A t \in ReductionTasks : rf[t[1]].cams[t[2]].frames >= 1

----------------------------------------------------------------------------
(* The files of one short exposure and the cameras its frames are filed
   under, with and without telemetry decoding and the dump of the raw
   buffers, on up to MaxTaskCameras cameras *)

InitFiling ==
    /\ settings \in {[DefaultSettings EXCEPT !.NUMBEROFSCIENCEHEADERSPERROW = h,
                                             !.SAVERESETFRAMES = s,
                                             !.SAVENUMPYARRAY = d] :
                        h \in {0, TelemetryWords}, s \in BOOLEAN, d \in BOOLEAN}
    /\ chip \in UNION {[0..(n - 1) -> 0..n] : n \in 1..MaxTaskCameras}
    /\ settings.NUMBEROFSCIENCEHEADERSPERROW = 0 => \A c \in DOMAIN chip : chip[c] = c
    /\ cmd \in StartMessages({0}, {1}) \cup InitMessages
    /\ InitSession

SpecFiling == InitFiling /\ [][Next]_vars

\* the handle_frame threads started for frame k
TasksOfFrame(k) == {t \in DOMAIN ht : t[1] = k}

\* C37: the handle_frame threads of one raw frame are filed under different
\* cameras, so no two of them write the same raw file or append to the same
\* ramp
TasksOfFrameOnDistinctCameras ==
    \A k \in DOMAIN hf : \A t1, t2 \in TasksOfFrame(k) :
        t1 # t2 =>
            /\ ht[t1].cam_index # ht[t2].cam_index
            /\ raw_frame_file(k[1], ht[t1].cam_index, k[3])
                   # raw_frame_file(k[1], ht[t2].cam_index, k[3])

\* C37 witness: the two threads of a science frame have saved two raw files
\* and filled the ramps of two cameras
TwoTasksOfFrameFiled ==
    \E k \in DOMAIN hf :
        /\ ~k[2]
        /\ Cardinality(TasksOfFrame(k)) = 2
        /\ \A t \in TasksOfFrame(k) :
              /\ ht[t].pc = "done"
              /\ FiledUnder(k, ht[t].cam_index)

\* the lists of files the status keeps for each camera
CameraFileEntries(_status) ==
    <<_status.ExposureFrames, _status.IntermediateReducedFrames, _status.FinalReducedFrame>>

\* C40: an exposure run with save_science_frame off, the test exposure of
\* INIT, saves no file, starts no handle_frame thread, leaves every ramp
\* empty, adds no file to the per-camera lists of the status and starts no
\* final reduction
NoPersistLeavesNoTrace ==
    ~cmd.save_science_frame =>
        /\ files = {}
        /\ ht = <<>>
        /\ rf = <<>>
        /\ \A e \in DOMAIN session : \A c \in Cameras : session[e].ramps[c] = <<>>
        /\ CameraFileEntries(status) = CameraFileEntries(StatusTemplate)

\* ---------------------------------------------------------------------------
\* C33: the sessions a later command restores from the storage file written
\* by OPEN or INIT are the sessions that command saved, as many and in the
\* same order
StorageFileRestoresSavedSessions ==
    (/\ store.pc = "returned"
     /\ store.command \in {"OPEN", "INIT"}
     /\ Len(store.units) >= 1)
        => LET loaded == load_macie_interfaces_from_storage_file(store.disk, settings)
           IN  /\ loaded.error = "none"
               /\ Len(loaded.macie_interfaces) = Len(store.units)
               /\ \A k \in 1..Len(store.units) :
                     gen_save_name(loaded.macie_interfaces[k]) = gen_save_name(store.units[k])

----------------------------------------------------------------------------
(* SpecKeys: the status keys CAMERA<n> of the cameras of one session.  The
   session has the cameras of an enumerated bitmask; every science frame is
   handled for every camera, then the ramp of every camera is reduced. *)

\* list.index(x): the position of the first x, counted from 0
ListIndex(list, x) ==
    (CHOOSE k \in 1..Len(list) :
        /\ list[k] = x
        /\ \A j \in 1..(k - 1) : list[j] # x) - 1

\* a session after init on a card that reports the bitmask all_asics, at the
\* start of an exposure
InitKeys ==
    /\ settings \in {[DefaultSettings EXCEPT !.MODE = m, !.REDUCEINTERMEDIATEFRAMES = r] :
                        m \in {"CDS", "SSR", "MEAN"}, r \in BOOLEAN}
    /\ calc = CalcIdle
    /\ red = RedIdle
    /\ geom = GeomIdle
    /\ deint = DeintIdle
    /\ sk = SkIdle
    /\ chip = <<>>
    /\ cmd = CmdIdle
    /\ status = StatusIdle
    /\ status_file = StatusIdle
    /\ session = <<>>
    /\ files = {}
    /\ hf = <<>>
    /\ ht = <<>>
    /\ rf = <<>>
    /\ store = StoreIdle
    /\ srv = SrvIdle
    /\ sv = SvIdle
    /\ \E all_asics \in AsicMasks \ {0}, exposure_time \in ExposureTimes :
          LET self == get_available_asics(
                          BaseMACIE(settings, 1, DefaultFrameX, DefaultFrameY), all_asics)
          IN  ck = [CkIdle EXCEPT
                       !.pc = "handle",
                       !.list_asics_index = self.list_asics_index,
                       !.cam_names = gen_cam_names(self, settings).cam_names,
                       !.science_frames = calc_num_frames(settings, exposure_time),
                       !.handled = [p \in 1..Len(self.list_asics_index) |-> 0]]

ckothers == <<settings, calc, red, geom, deint, sk, chip, cmd, status, status_file, session,
              files, hf, ht, rf, store, srv, sv>>

\* the entry of the status that a put or an append under CAMERA<n> leaves
StatusEntry(field, camera_number, cam_name) ==
    [field |-> field, key |-> camera_number, cam_name |-> cam_name]

\* handle_frames line 421 and handle_frame lines 442-456 for a science frame
\* of the camera at position p of the zip: cam_index is the entry of
\* list_asics_index
KeysHandleFrame(p) ==
    /\ ck.pc = "handle"
    /\ ck.handled[p] < ck.science_frames
    /\ LET cam_name == ck.cam_names[p]
           cam_index == ck.list_asics_index[p]
       IN  ck' = [ck EXCEPT
                     !.handled[p] = @ + 1,
                     !.entries = @ \cup {StatusEntry("ExposureFrames", cam_index, cam_name)}
                                   \cup IF settings.REDUCEINTERMEDIATEFRAMES
                                        THEN {StatusEntry("IntermediateReducedFrames",
                                                          cam_index, cam_name)}
                                        ELSE {}]
    /\ UNCHANGED ckothers

\* start lines 539-546: every thread joined, reduce_frames started
KeysReduceFrames ==
    /\ ck.pc = "handle"
    /\ \A p \in DOMAIN ck.handled : ck.handled[p] = ck.science_frames
    /\ ck' = [ck EXCEPT !.pc = "reduce"]
    /\ UNCHANGED ckothers

\* reduce_frame lines 466-473 for the camera at position p: the ramp's last
\* entry is read, then the file recorded under cam_names.index(cam_name)
KeysReduceFrame(p) ==
    /\ ck.pc = "reduce"
    /\ p \in DOMAIN ck.cam_names
    /\ p \notin ck.reduced
    /\ LET cam_name == ck.cam_names[p]
       IN  ck' = [ck EXCEPT
                     !.reduced = @ \cup {p},
                     !.entries = IF ck.handled[p] = 0
                                 THEN @
                                 ELSE @ \cup {StatusEntry("FinalReducedFrame",
                                                          ListIndex(ck.cam_names, cam_name),
                                                          cam_name)}]
    /\ UNCHANGED ckothers

NextKeys ==
    \/ \E p \in DOMAIN ck.handled : KeysHandleFrame(p)
    \/ KeysReduceFrames
    \/ \E p \in DOMAIN ck.handled : KeysReduceFrame(p)

SpecKeys == InitKeys /\ [][NextKeys]_vars

\* C32: the key CAMERA<n> under which a camera's final reduced file is
\* recorded is the key under which its exposure frames and intermediate
\* reduced frames were recorded
FinalKeyIsFrameKey ==
    \A final, frame \in ck.entries :
        (/\ final.field = "FinalReducedFrame"
         /\ frame.field # "FinalReducedFrame"
         /\ final.cam_name = frame.cam_name)
            => final.key = frame.key

====
